---- MODULE Spec2Model ----
(***************************************************************************)
(* State-machine model of the voice bridge.                                *)
(*                                                                         *)
(* Engine-leg client (src/src/personaplex/client.ts, class                 *)
(* PersonaPlexClient) with the wire codec it uses                          *)
(* (src/src/personaplex/protocol.ts), specification Spec.                  *)
(* Frame buffer (src/src/audio/buffer.ts, class AudioBuffer),              *)
(* specification BufferSpec.                                               *)
(* Telephony-leg handler (src/src/twilio/media-streams.ts, class           *)
(* TwilioMediaHandler) with the listeners handleMediaStream puts on it     *)
(* and on the telephony socket (src/src/audio/index.ts), specification     *)
(* TwilioSpec.                                                             *)
(*                                                                         *)
(* One action per public method (connect, close, sendAudio), per socket    *)
(* event handler registered in connectInternal (open, message, error,      *)
(* close) and per timer continuation (the pre-handshake retry timer and    *)
(* the attemptReconnect back-off sleep).  Every handler runs to completion *)
(* (single-threaded event loop), so each is one atomic step.  Each         *)
(* specification drives one component and leaves the variables of the      *)
(* others as they start.                                                   *)
(***************************************************************************)
EXTENDS Integers, Sequences, FiniteSets, TLC

(***************************************************************************)
(* Bounds of the exploration.                                              *)
(***************************************************************************)
\* option maxReconnectAttempts handed to the constructor
MaxReconnectAttempts == 1
\* sockets created in one behaviour
MaxSockets == 3
\* largest frameSize an AudioBuffer is constructed with
MaxFrameSize == 2
\* largest maxFrames an AudioBuffer is constructed with
MaxBufferFrames == 2
\* media messages one TwilioMediaHandler creates in one behaviour
MaxMediaSequence == 2

\* engine clients one session object constructs
MaxClients == 2

(***************************************************************************)
(* Wire protocol (protocol.ts).                                            *)
(***************************************************************************)
HANDSHAKE == 0
AUDIO == 1
TEXT == 2
CONTROL == 3
METADATA == 4
ERROR == 5
PING == 6

\* JSON.parse on the texts made of the bytes '1' (49), '{' (123) and
\* '}' (125): a run of digits is a number, "{}" an object, anything else,
\* the empty text included, a SyntaxError
jsonParse(text) ==
    IF text # << >> /\ \A i \in 1..Len(text) : text[i] = 49
    THEN [ threw |-> FALSE, value |-> << "number", Len(text) >> ]
    ELSE IF text = << 123, 125 >>
    THEN [ threw |-> FALSE, value |-> << "object" >> ]
    ELSE [ threw |-> TRUE, value |-> << >> ]

\* protocol.ts decodeControlAction(payload[0])
decodeControlAction(payload) ==
    IF payload = << >> THEN "unknown"
    ELSE CASE payload[1] = 0 -> "start"
           [] payload[1] = 1 -> "endTurn"
           [] payload[1] = 2 -> "pause"
           [] payload[1] = 3 -> "restart"
           [] OTHER          -> "unknown"

\* decodeMessage with no try around JSON.parse: the SyntaxError leaves it
decodeMessage_NoCatch(data) ==
    IF Len(data) = 0 THEN [ type |-> "unknown", value |-> << -1 >> ]
    ELSE LET messageType == data[1]
             payload     == Tail(data)
         IN  CASE messageType = HANDSHAKE -> [ type |-> "handshake", value |-> << >> ]
               [] messageType = AUDIO     -> [ type |-> "audio", value |-> payload ]
               [] messageType = TEXT      -> [ type |-> "text", value |-> payload ]
               [] messageType = CONTROL   ->
                     [ type |-> "control", value |-> << decodeControlAction(payload) >> ]
               [] messageType = METADATA  ->
                     IF jsonParse(payload).threw
                     THEN [ type |-> "threw", value |-> << >> ]
                     ELSE [ type |-> "metadata", value |-> jsonParse(payload).value ]
               [] messageType = ERROR     -> [ type |-> "error", value |-> payload ]
               [] messageType = PING      -> [ type |-> "ping", value |-> << >> ]
               [] OTHER                   ->
                     [ type |-> "unknown", value |-> << messageType >> ]

\* protocol.ts decodeMessage: the message type and what comes with it (the
\* payload bytes, the action, the parsed metadata or << >> for null, the
\* raw type of an unknown message)
decodeMessage(data) ==
    IF Len(data) = 0 THEN [ type |-> "unknown", value |-> << -1 >> ]
    ELSE LET messageType == data[1]
             payload     == Tail(data)
         IN  CASE messageType = HANDSHAKE -> [ type |-> "handshake", value |-> << >> ]
               [] messageType = AUDIO     -> [ type |-> "audio", value |-> payload ]
               [] messageType = TEXT      -> [ type |-> "text", value |-> payload ]
               [] messageType = CONTROL   ->
                     [ type |-> "control", value |-> << decodeControlAction(payload) >> ]
               [] messageType = METADATA  ->
                     [ type |-> "metadata",
                       value |-> IF jsonParse(payload).threw THEN << >>
                                 ELSE jsonParse(payload).value ]
               [] messageType = ERROR     -> [ type |-> "error", value |-> payload ]
               [] messageType = PING      -> [ type |-> "ping", value |-> << >> ]
               [] OTHER                   ->
                     [ type |-> "unknown", value |-> << messageType >> ]

\* the switch of handleMessage reads message.type
decodeMessageType(data) == decodeMessage(data).type

\* the payload sent without its type byte
encodeAudioMessage_Untagged(opusData) == opusData

\* protocol.ts encodeAudioMessage: one AUDIO type byte, then the payload.
encodeAudioMessage(opusData) == <<AUDIO>> \o opusData

\* frames the engine may deliver on a socket
EngineFrames == { <<>>, <<HANDSHAKE>>, <<AUDIO, 7>>, <<TEXT, 65>>, <<CONTROL, 1>>,
                  <<METADATA, 123>>, <<ERROR, 69>>, <<PING>>, <<9>> }

\* corrupt frames: nothing at all, a type byte outside the protocol,
\* Metadata whose payload is no JSON text or is missing
CorruptFrames == { <<>>, <<9>>, <<METADATA, 123>>, <<METADATA>> }

\* opus packets a caller may hand to sendAudio
OpusPackets == { <<>>, <<7>> }

(***************************************************************************)
(* State.                                                                  *)
(***************************************************************************)
VARIABLES
    ws,                 \* this.ws: index into sockets, 0 for null
    isConnecting,       \* this.isConnecting
    isReady,            \* this.isReady
    shouldReconnect,    \* this.shouldReconnect
    reconnectAttempts,  \* this.reconnectAttempts
    autoReconnect,      \* this.autoReconnect (constructor option)
    urlValid,           \* whether new URL(config.url) succeeds
    sockets,            \* every WebSocket created so far
    retryTimers,        \* pending setTimeout of the pre-handshake retry
    reconnectSleepers,  \* attemptReconnect invocations awaiting their delay
    connectCalls,       \* promises returned by connectInternal chains
    maxReachedErrors,   \* 'Max reconnection attempts reached' errors emitted
    closeRequested,     \* close() was called and no caller has called connect() since
    called,             \* the method or handler that ran last
    outcome,            \* how the call that ran last ended, for the caller
    emitted,            \* events emitted by the handler that ran last, in order
    written             \* frames written to a socket by the handler that ran last

VARIABLES
    audioBuffer,        \* an AudioBuffer: frameSize, buffer, writePosition
    nextSample,         \* number of the next sample the producer will push
    bufferCall          \* the AudioBuffer method that ran last, its argument and result

VARIABLES
    streamSid,          \* TwilioMediaHandler.streamSid
    callSid,            \* TwilioMediaHandler.callSid
    mediaSequence,      \* TwilioMediaHandler.mediaSequence
    bridgeStreamSid,    \* streamSid of handleMediaStream, shared by its listeners
    twilioSocket,       \* readyState of the telephony socket
    lastStreamEvent,    \* history: the last Start or Stop the telephony leg signalled
    twilioCall          \* the handler method or listener that ran last and its results

VARIABLES
    isSessionActive,    \* VoiceBot.isSessionActive
    personaplexClient,  \* VoiceBot.personaplexClient: << k >> for the k-th client created, Null
    inputBuffer,        \* VoiceBot.inputBuffer: << an AudioBuffer >> or Null
    opusCodec,          \* VoiceBot.opusCodec: << "codec" >> or Null
    inputSampleRate,    \* VoiceBot.inputSampleRate
    clientsCreated,     \* engine clients constructed by startSession() so far
    closeWaiters,       \* cleanup() calls awaiting close() of the client created last
    orphans,            \* clients that startSession() has replaced and that can still act
    jobs,               \* continuations that are ready to run, in order
    botCall             \* the VoiceBot method, listener or continuation that ran last

clientVars == << ws, isConnecting, isReady, shouldReconnect, reconnectAttempts,
           autoReconnect, urlValid, sockets, retryTimers, reconnectSleepers,
           connectCalls, maxReachedErrors, closeRequested,
           called, outcome, emitted, written >>

bufferVars == << audioBuffer, nextSample, bufferCall >>

twilioVars == << streamSid, callSid, mediaSequence, bridgeStreamSid,
                twilioSocket, lastStreamEvent, twilioCall >>

sessionVars == << isSessionActive, personaplexClient, inputBuffer, opusCodec,
                 inputSampleRate, clientsCreated, closeWaiters, orphans, jobs,
                 botCall >>

\* the telephony chunks fed to a session and the frames it made of them
VARIABLES
    chunksFed,          \* sendAudio() calls made with one telephony chunk
    framesEncoded,      \* OpusCodec.encode() calls made for them
    framesSent          \* Audio frames written to the engine socket for them

framingVars == << chunksFed, framesEncoded, framesSent >>

\* a call of one of the pure functions of the codecs
VARIABLES
    codecCall           \* the function, its argument and its result

codecVars == << codecCall >>

VARIABLES
    endedSinceStart     \* history: the session emitted 'ended' after the last startSession()

historyVars == << endedSinceStart >>

restVars == << framingVars, codecVars, historyVars >>

\* framingVars and codecVars, for the specifications that record the history
otherComponentVars == << framingVars, codecVars >>

vars == << clientVars, bufferVars, twilioVars, sessionVars, restVars >>

EventNames == { "connected", "disconnected", "error", "audio", "text", "ready", "message" }

SocketIds == 1..Len(sockets)

Live(s) == sockets[s].readyState # "CLOSED"

Emit(ev, name) == Append(ev, name)

Count(ev, name) == Cardinality({ i \in 1..Len(ev) : ev[i] = name })

\* PersonaPlexClient field initialisers and constructor
Init ==
    /\ ws = 0
    /\ isConnecting = FALSE
    /\ isReady = FALSE
    /\ shouldReconnect = TRUE
    /\ reconnectAttempts = 0
    /\ autoReconnect \in BOOLEAN
    /\ urlValid \in BOOLEAN
    /\ sockets = << >>
    /\ retryTimers = << >>
    /\ reconnectSleepers = 0
    /\ connectCalls = << >>
    /\ maxReachedErrors = 0
    /\ closeRequested = FALSE
    /\ called = "constructor"
    /\ outcome = "returned"
    /\ emitted = << >>
    /\ written = << >>

(***************************************************************************)
(* connect() and connectInternal().                                        *)
(***************************************************************************)
\* new WebSocket(url): a socket in state CONNECTING whose handlers close
\* over the resolve/reject of connect call c.  closePending: a close()
\* promise waits for this socket's 'close' event; onceClose: a once('close')
\* listener of close() is attached; closeAcked: such a promise was resolved
\* by the event.
NewSocket(c) ==
    [ readyState |-> "CONNECTING", call |-> c, handshake |-> FALSE,
      closePending |-> FALSE, onceClose |-> FALSE, closeAcked |-> FALSE ]

NewCall(origin) ==
    [ origin |-> origin, state |-> "pending", attempts |-> -1, retries |-> 0 ]

\* reject(...) on the promise of call c: a settled promise stays as it is
Reject(calls, c, n) ==
    IF calls[c].state = "pending"
    THEN [calls EXCEPT ![c].state = "rejected", ![c].attempts = n]
    ELSE calls

\* resolve() on the promise of call c
Resolve(calls, c) ==
    IF calls[c].state = "pending"
    THEN [calls EXCEPT ![c].state = "resolved"]
    ELSE calls

\* connect(): the two early returns
ConnectReturnsEarly ==
    \/ (ws # 0 /\ sockets[ws].readyState = "OPEN")
    \/ isConnecting

\* connect() followed by connectInternal(), for a caller of kind origin
ConnectBody(origin) ==
    IF ConnectReturnsEarly
    THEN /\ outcome' = "resolved"
         /\ UNCHANGED << ws, isConnecting, shouldReconnect, reconnectAttempts,
                         sockets, connectCalls >>
    ELSE /\ shouldReconnect' = TRUE
         /\ reconnectAttempts' = 0
         /\ IF urlValid
            THEN /\ Len(sockets) < MaxSockets
                 /\ isConnecting' = TRUE
                 /\ connectCalls' = Append(connectCalls, NewCall(origin))
                 /\ sockets' = Append(sockets, NewSocket(Len(connectCalls) + 1))
                 /\ ws' = Len(sockets) + 1
                 /\ outcome' = "pending"
            ELSE /\ isConnecting' = FALSE
                 /\ outcome' = "rejected"
                 /\ UNCHANGED << ws, sockets, connectCalls >>

\* a caller invokes connect()
Connect ==
    /\ called' = "connect"
    /\ closeRequested' = FALSE
    /\ ConnectBody("caller")
    /\ emitted' = << >>
    /\ written' = << >>
    /\ UNCHANGED << isReady, autoReconnect, urlValid, retryTimers,
                    reconnectSleepers, maxReachedErrors >>

\* the setTimeout callback of the pre-handshake retry: connectInternal()
\* chained to the resolve/reject of the call that scheduled it
RetryTimerFires(i) ==
    /\ i \in 1..Len(retryTimers)
    /\ Len(sockets) < MaxSockets
    /\ called' = "retryTimer"
    /\ outcome' = "returned"
    /\ retryTimers' = [k \in 1..(Len(retryTimers) - 1) |->
                          IF k < i THEN retryTimers[k] ELSE retryTimers[k + 1]]
    /\ sockets' = Append(sockets, NewSocket(retryTimers[i]))
    /\ ws' = Len(sockets) + 1
    /\ emitted' = << >>
    /\ written' = << >>
    /\ UNCHANGED << isConnecting, isReady, shouldReconnect, reconnectAttempts,
                    autoReconnect, urlValid, reconnectSleepers, connectCalls,
                    maxReachedErrors, closeRequested >>

\* attemptReconnect() resumes after its delay and awaits connect(); a
\* rejection of that call is caught and dropped
ReconnectSleepEnds ==
    /\ reconnectSleepers > 0
    /\ called' = "attemptReconnect"
    /\ reconnectSleepers' = reconnectSleepers - 1
    /\ ConnectBody("reconnect")
    /\ emitted' = << >>
    /\ written' = << >>
    /\ UNCHANGED << isReady, autoReconnect, urlValid, retryTimers,
                    maxReachedErrors, closeRequested >>

(***************************************************************************)
(* Socket event handlers registered in connectInternal().                  *)
(***************************************************************************)
\* ws.on('open')
SocketOpen(s) ==
    /\ s \in SocketIds
    /\ sockets[s].readyState = "CONNECTING"
    /\ called' = "open"
    /\ outcome' = "returned"
    /\ sockets' = [sockets EXCEPT ![s].readyState = "OPEN"]
    /\ reconnectAttempts' = 0
    /\ emitted' = Emit(<< >>, "connected")
    /\ written' = << >>
    /\ UNCHANGED << ws, isConnecting, isReady, shouldReconnect, autoReconnect,
                    urlValid, retryTimers, reconnectSleepers, connectCalls,
                    maxReachedErrors, closeRequested >>

\* ws.on('message') -> handleMessage(data, resolve)
SocketMessage(s, data) ==
    /\ s \in SocketIds
    /\ sockets[s].readyState \in { "OPEN", "CLOSING" }
    /\ called' = "message"
    /\ outcome' = "returned"
    /\ LET type == decodeMessageType(data)
           ev1  == Emit(<< >>, "message")
       IN  CASE type = "handshake" ->
                  /\ isReady' = TRUE
                  /\ emitted' = Emit(ev1, "ready")
                  /\ connectCalls' = Resolve(connectCalls, sockets[s].call)
                  /\ sockets' = [sockets EXCEPT ![s].handshake = TRUE]
             [] type = "audio" ->
                  /\ emitted' = Emit(ev1, "audio")
                  /\ UNCHANGED << isReady, connectCalls, sockets >>
             [] type = "text" ->
                  /\ emitted' = Emit(ev1, "text")
                  /\ UNCHANGED << isReady, connectCalls, sockets >>
             [] type = "error" ->
                  /\ emitted' = Emit(ev1, "error")
                  /\ UNCHANGED << isReady, connectCalls, sockets >>
             [] OTHER ->
                  /\ emitted' = ev1
                  /\ UNCHANGED << isReady, connectCalls, sockets >>
    /\ written' = << >>
    /\ UNCHANGED << ws, isConnecting, shouldReconnect, reconnectAttempts,
                    autoReconnect, urlValid, retryTimers, reconnectSleepers,
                    maxReachedErrors, closeRequested >>

\* ws.on('error') on an established socket: the error is re-emitted and the
\* socket starts closing
SocketError(s) ==
    /\ s \in SocketIds
    /\ sockets[s].readyState = "OPEN"
    /\ called' = "error"
    /\ outcome' = "returned"
    /\ sockets' = [sockets EXCEPT ![s].readyState = "CLOSING"]
    /\ emitted' = Emit(<< >>, "error")
    /\ written' = << >>
    /\ UNCHANGED << ws, isConnecting, isReady, shouldReconnect,
                    reconnectAttempts, autoReconnect, urlValid, retryTimers,
                    reconnectSleepers, connectCalls, maxReachedErrors,
                    closeRequested >>

\* the retry decided without looking at the budget
RetryScheduled_NoBudgetTest == shouldReconnect

\* close handler, pre-handshake branch: is a retry scheduled?
RetryScheduled == shouldReconnect /\ reconnectAttempts < MaxReconnectAttempts

\* close handler, post-ready branch: is attemptReconnect() called?
ReconnectAfterDisconnect == autoReconnect /\ shouldReconnect

\* attemptReconnect(): the budget check at its top
ReconnectBudgetExhausted == reconnectAttempts >= MaxReconnectAttempts

\* ws.on('close') followed by the once('close') listener close() added;
\* failed tells whether the socket never got established, in which case the
\* socket library emits 'error' right before 'close'
CloseHandlers(s, failed) ==
    LET c       == sockets[s].call
        pre     == ~isReady
        retry   == pre /\ RetryScheduled
        giveUp  == pre /\ ~RetryScheduled
        post    == isReady
        again   == post /\ ReconnectAfterDisconnect
        maxed   == again /\ ReconnectBudgetExhausted
        sleep   == again /\ ~ReconnectBudgetExhausted
        hasOnce == sockets[s].onceClose
        ev1     == IF failed THEN Emit(<< >>, "error") ELSE << >>
        ev2     == IF post THEN Emit(ev1, "disconnected") ELSE ev1
        ev3     == IF maxed THEN Emit(ev2, "error") ELSE ev2
    IN  /\ called' = "close event"
        /\ outcome' = "returned"
        /\ sockets' = [sockets EXCEPT
               ![s].readyState = "CLOSED",
               ![s].onceClose = FALSE,
               ![s].closePending = FALSE,
               ![s].closeAcked = sockets[s].closePending]
        /\ reconnectAttempts' =
               IF retry \/ sleep THEN reconnectAttempts + 1 ELSE reconnectAttempts
        /\ ws' = IF retry \/ hasOnce THEN 0 ELSE ws
        /\ isConnecting' = IF giveUp \/ post THEN FALSE ELSE isConnecting
        /\ isReady' = IF post \/ hasOnce THEN FALSE ELSE isReady
        /\ retryTimers' = IF retry THEN Append(retryTimers, c) ELSE retryTimers
        /\ reconnectSleepers' =
               IF sleep THEN reconnectSleepers + 1 ELSE reconnectSleepers
        /\ connectCalls' =
               IF retry THEN [connectCalls EXCEPT ![c].retries = @ + 1]
               ELSE IF giveUp THEN Reject(connectCalls, c, reconnectAttempts)
               ELSE connectCalls
        /\ emitted' = ev3
        /\ written' = << >>
        /\ maxReachedErrors' =
               IF maxed THEN maxReachedErrors + 1 ELSE maxReachedErrors
        /\ UNCHANGED << shouldReconnect, autoReconnect, urlValid,
                        closeRequested >>

\* the connection attempt fails: 'error', then 'close'
SocketConnectFails(s) ==
    /\ s \in SocketIds
    /\ sockets[s].readyState = "CONNECTING"
    /\ CloseHandlers(s, TRUE)

\* an established socket closes: 'close'
SocketClose(s) ==
    /\ s \in SocketIds
    /\ sockets[s].readyState \in { "OPEN", "CLOSING" }
    /\ CloseHandlers(s, FALSE)

(***************************************************************************)
(* sendAudio() and close().                                                *)
(***************************************************************************)
\* the guard without its isReady test
SendAudioAllowed_NoReadyTest ==
    ws # 0 /\ sockets[ws].readyState = "OPEN"

\* sendAudio(): the guard before the write
SendAudioAllowed ==
    isReady /\ ws # 0 /\ sockets[ws].readyState = "OPEN"

SendAudio(opusData) ==
    /\ called' = "sendAudio"
    /\ IF SendAudioAllowed
       THEN /\ written' = << [ socket |-> ws,
                               data |-> encodeAudioMessage(opusData) ] >>
            /\ outcome' = "returned"
       ELSE /\ written' = << >>
            /\ outcome' = "threw"
    /\ emitted' = << >>
    /\ UNCHANGED << ws, isConnecting, isReady, shouldReconnect,
                    reconnectAttempts, autoReconnect, urlValid, sockets,
                    retryTimers, reconnectSleepers, connectCalls,
                    maxReachedErrors, closeRequested >>

\* close() calling ws.close() and waiting whatever the socket's state
CloseWaitsForEvent_Always(readyState) == TRUE

\* close(): does it call ws.close() and wait for the 'close' event?
CloseWaitsForEvent(readyState) == readyState = "OPEN"

\* close(); a once('close') listener put on a socket that is already CLOSED
\* can never run and is left out
Close ==
    /\ called' = "close"
    /\ shouldReconnect' = FALSE
    /\ closeRequested' = TRUE
    /\ IF ws = 0
       THEN /\ outcome' = "resolved"
            /\ UNCHANGED << ws, isReady, sockets >>
       ELSE LET rs == sockets[ws].readyState
            IN  IF CloseWaitsForEvent(rs)
                THEN /\ sockets' = [sockets EXCEPT
                            ![ws].readyState = "CLOSING",
                            ![ws].onceClose = TRUE,
                            ![ws].closePending = TRUE]
                     /\ outcome' = "pending"
                     /\ UNCHANGED << ws, isReady >>
                ELSE /\ sockets' = [sockets EXCEPT
                            ![ws].onceClose = (rs # "CLOSED")]
                     /\ ws' = 0
                     /\ isReady' = FALSE
                     /\ outcome' = "resolved"
    /\ emitted' = << >>
    /\ written' = << >>
    /\ UNCHANGED << isConnecting, reconnectAttempts, autoReconnect, urlValid,
                    retryTimers, reconnectSleepers, connectCalls,
                    maxReachedErrors >>

(***************************************************************************)
(* Properties of the engine-leg client.                                    *)
(***************************************************************************)
ClientState == << ws, isConnecting, isReady, shouldReconnect,
                  reconnectAttempts, sockets, retryTimers, reconnectSleepers,
                  connectCalls >>

CallIds == 1..Len(connectCalls)

LiveSockets == { s \in SocketIds : Live(s) }

\* C1: an Audio message is written to a socket only if a Handshake has
\* already been received on that same socket, retries included.
C1_AudioOnlyAfterHandshake ==
    \A i \in 1..Len(written) :
        /\ written[i].socket \in SocketIds
        /\ sockets[written[i].socket].handshake

\* audio was written to a socket that a retry created
C1_Witness ==
    /\ Len(written) = 1
    /\ written[1].socket > 1
    /\ sockets[written[1].socket].handshake
    /\ connectCalls[sockets[written[1].socket].call].retries > 0

\* C2: sendAudio while the client's socket has seen no Handshake throws and
\* writes nothing; after the Handshake, with the socket open, it writes
\* exactly one Audio-tagged message on that socket and does not throw.
C2_SendAudioGating ==
    [][ called' = "sendAudio" =>
          /\ (ws = 0 \/ (ws # 0 /\ ~sockets[ws].handshake)) =>
                /\ outcome' = "threw"
                /\ written' = << >>
          /\ (ws # 0 /\ sockets[ws].handshake /\ sockets[ws].readyState = "OPEN") =>
                /\ outcome' = "returned"
                /\ Len(written') = 1
                /\ written'[1].socket = ws
                /\ \E p \in OpusPackets : written'[1].data = <<AUDIO>> \o p
      ]_vars

\* one sendAudio after the Handshake has put one Audio frame on the wire
C2_Witness ==
    /\ called = "sendAudio"
    /\ outcome = "returned"
    /\ ws # 0
    /\ sockets[ws].handshake
    /\ written = << [ socket |-> ws, data |-> <<AUDIO, 7>> ] >>

\* C3: when every socket of one connect() call closes before a Handshake,
\* opened or not, at most maxReconnectAttempts retries are scheduled for the
\* call; it then rejects naming the attempt count and no retry timer of the
\* call stays pending.
C3_ReconnectBound ==
    \A c \in CallIds :
        /\ connectCalls[c].retries <= MaxReconnectAttempts
        /\ connectCalls[c].state = "rejected" =>
              \A i \in 1..Len(retryTimers) : retryTimers[i] # c

\* C4: whenever the retry budget is exhausted, in the initial connect() or
\* in an automatic reconnect after a post-Ready drop, the failure is
\* surfaced: the caller sees connect() rejected, or the client emits its
\* terminal 'Max reconnection attempts reached' error.
C4_ExhaustionSurfaced ==
    \A c \in CallIds :
        ( /\ connectCalls[c].state = "rejected"
          /\ connectCalls[c].attempts >= MaxReconnectAttempts )
        => ( connectCalls[c].origin = "caller" \/ maxReachedErrors > 0 )

\* C5: with auto-reconnect disabled a pre-Handshake close schedules no
\* retry; a retry is scheduled only if auto-reconnect is enabled.
C5_NoRetryWithoutAutoReconnect ==
    ~autoReconnect =>
        /\ retryTimers = << >>
        /\ \A c \in CallIds : connectCalls[c].retries = 0

\* C6: once close() has been called, and until a caller invokes connect()
\* again, no socket is created and no retry or reconnect is scheduled, even
\* if a retry timer was pending or a socket was connecting at that moment.
C6_NoSocketAfterClose ==
    [][ (closeRequested /\ closeRequested') =>
          /\ Len(sockets') = Len(sockets)
          /\ Len(retryTimers') <= Len(retryTimers)
          /\ reconnectSleepers' <= reconnectSleepers
      ]_vars

\* C7: a close() made while the client holds a socket that is not yet
\* closed (connecting, open or closing) does not resolve on the spot: its
\* promise stays pending until that socket's close event, and a promise
\* resolved by the event belongs to a closed socket.
C7_CloseResolvesAfterSocketClosed ==
    /\ [][ ( /\ called' = "close"
             /\ ws # 0
             /\ sockets[ws].readyState # "CLOSED" )
           => ( /\ outcome' = "pending"
                /\ sockets'[ws].closePending )
         ]_vars
    /\ [](\A s \in SocketIds :
             /\ sockets[s].closeAcked => sockets[s].readyState = "CLOSED"
             /\ sockets[s].closePending => sockets[s].readyState # "CLOSED")

\* C8: close() on a client that holds no socket or a closed one resolves at
\* once and emits nothing; the only fields it may touch are ws (null) and
\* shouldReconnect (false), so repeating it leaves the state as the first
\* close() left it.
C8_CloseIdempotent ==
    [][ ( /\ called' = "close"
          /\ (ws = 0 \/ (ws # 0 /\ sockets[ws].readyState = "CLOSED")) )
        => /\ outcome' = "resolved"
           /\ emitted' = << >>
           /\ maxReachedErrors' = maxReachedErrors
           /\ ws' = 0
           /\ shouldReconnect' = FALSE
           /\ UNCHANGED << isConnecting, isReady, reconnectAttempts, sockets,
                           retryTimers, reconnectSleepers, connectCalls >>
           /\ (ws = 0 /\ ~shouldReconnect) => UNCHANGED ClientState
      ]_vars

\* close() has just returned on a client whose earlier close() was
\* acknowledged by the socket's close event
C8_Witness ==
    /\ called = "close"
    /\ outcome = "resolved"
    /\ ws = 0
    /\ ~shouldReconnect
    /\ \E s \in SocketIds : sockets[s].closeAcked
    /\ LiveSockets = {}

\* C9: at most one reconnect retry is pending and at most one engine socket
\* is live at any time.
C9_OneRetryOneSocket ==
    /\ Len(retryTimers) + reconnectSleepers <= 1
    /\ Cardinality(LiveSockets) <= 1

\* C10: when a socket that reached Ready closes, exactly one disconnected
\* event is emitted and the client is not Ready; a reconnect is scheduled
\* only if auto-reconnect is enabled and close() was not requested, and the
\* retries of a reconnect stay within maxReconnectAttempts.
C10_DisconnectAfterReady ==
    /\ [][ \A s \in SocketIds :
             ( /\ sockets[s].handshake
               /\ sockets[s].readyState # "CLOSED"
               /\ sockets'[s].readyState = "CLOSED" )
             => /\ Count(emitted', "disconnected") = 1
                /\ ~isReady'
                /\ reconnectSleepers' > reconnectSleepers =>
                      (autoReconnect /\ ~closeRequested)
         ]_vars
    /\ [](\A c \in CallIds :
             connectCalls[c].origin = "reconnect" =>
                 connectCalls[c].retries <= MaxReconnectAttempts)

\* close() has been called, no connect() since, and its promise is resolved
CloseResolved ==
    /\ closeRequested
    /\ \A s \in SocketIds : ~sockets[s].closePending

\* C39: after close() has resolved, in whatever state it found the client
\* (a retry pending, a socket connecting, Ready), a later connect() opens a
\* new socket and its promise waits for the Handshake on it; when the
\* Handshake arrives the client is Ready and the promise resolves.
C39_ConnectAfterClose ==
    /\ [][ (CloseResolved /\ urlValid /\ called' = "connect") =>
              /\ Len(sockets') = Len(sockets) + 1
              /\ ws' = Len(sockets')
              /\ sockets'[ws'].readyState = "CONNECTING"
              /\ outcome' = "pending"
         ]_vars
    /\ [][ \A s \in SocketIds :
              (~sockets[s].handshake /\ sockets'[s].handshake) =>
                  /\ isReady'
                  /\ connectCalls'[sockets[s].call].state # "pending"
         ]_vars

\* C32: the reconnect attempt counter of the engine client is between 0
\* and maxReconnectAttempts in every reachable state, on the retries before
\* a handshake as on the reconnects after one.
C32_AttemptsWithinBudget ==
    reconnectAttempts \in 0..MaxReconnectAttempts

\* the budget is used up, with a retry timer of a failed attempt and the
\* sleep of a reconnect after a disconnect both pending
C32_Witness ==
    /\ reconnectAttempts = MaxReconnectAttempts
    /\ retryTimers # << >>
    /\ reconnectSleepers > 0

\* C33: a promise returned by connect() resolves only when the client is
\* Ready, a Handshake having arrived on its open socket; this includes a
\* connect() made while another is in progress or while the socket is open
\* without a handshake.
C33_ConnectResolvesWhenReady ==
    (called = "connect" /\ outcome = "resolved")
        => /\ isReady
           /\ ws # 0
           /\ sockets[ws].readyState = "OPEN"
           /\ sockets[ws].handshake

(***************************************************************************)
(* Frame buffer (src/src/audio/buffer.ts, class AudioBuffer).              *)
(*                                                                         *)
(* The buffer never looks at the value of a sample, so the producer's      *)
(* stream is the samples numbered 1, 2, 3, ... in the order they are       *)
(* pushed (numbers wrap at SampleSpan, far enough apart to tell any two    *)
(* samples the buffer can hold at once from each other); 0 is the content  *)
(* of a cell never written.                                                *)
(*                                                                         *)
(* The methods are translated on the whole Float32Array.  The cells from   *)
(* writePosition on are dead storage: push overwrites them before          *)
(* writePosition moves past them, and readFrame and hasFrame never look    *)
(* at them.  The state keeps them at 0 (Settle), so that two buffers with  *)
(* the same live samples are one state; a sample that became live without  *)
(* having been written would then show as 0.                               *)
(***************************************************************************)
SampleSpan == 2 * MaxFrameSize * MaxBufferFrames + 2

\* the n samples of the stream that start with sample number first
Run(first, n) == [i \in 1..n |-> ((first + i - 2) % SampleSpan) + 1]

Min(a, b) == IF a < b THEN a ELSE b

Max(a, b) == IF a > b THEN a ELSE b

\* TypedArray.prototype.copyWithin(target, start) with target >= 0
copyWithin(arr, target, start) ==
    LET len   == Len(arr)
        from  == IF start < 0 THEN Max(len + start, 0) ELSE Min(start, len)
        to    == Min(target, len)
        count == Min(len - from, len - to)
    IN  [i \in 1..len |->
            IF i > to /\ i <= to + count THEN arr[i - to + from] ELSE arr[i]]

\* TypedArray.prototype.set(source, offset) throws a RangeError when the
\* offset is negative or the source does not fit behind it
setThrows(arr, source, offset) ==
    offset < 0 \/ Len(source) + offset > Len(arr)

\* TypedArray.prototype.set(source, offset) when it does not throw
set(arr, source, offset) ==
    [i \in 1..Len(arr) |->
        IF i > offset /\ i <= offset + Len(source)
        THEN source[i - offset] ELSE arr[i]]

\* TypedArray.prototype.slice(start, end): negative indices count from the end
slice(arr, start, end) ==
    LET len  == Len(arr)
        from == IF start < 0 THEN Max(len + start, 0) ELSE Min(start, len)
        to   == IF end < 0 THEN Max(len + end, 0) ELSE Min(end, len)
    IN  SubSeq(arr, from + 1, to)

\* new AudioBuffer(frameSize, maxFrames)
AudioBuffer(frameSize, maxFrames) ==
    [ frameSize     |-> frameSize,
      buffer        |-> [i \in 1..(frameSize * maxFrames) |-> 0],
      writePosition |-> 0 ]

\* push(samples): the buffer after the call and whether buffer.set threw
push(ab, samples) ==
    LET over     == ab.writePosition + Len(samples) > Len(ab.buffer)
        overflow == ab.writePosition + Len(samples) - Len(ab.buffer)
        buf1     == IF over THEN copyWithin(ab.buffer, 0, overflow) ELSE ab.buffer
        wp1      == IF over THEN ab.writePosition - overflow ELSE ab.writePosition
    IN  IF setThrows(buf1, samples, wp1)
        THEN [ ab    |-> [ab EXCEPT !.buffer = buf1, !.writePosition = wp1],
               threw |-> TRUE ]
        ELSE [ ab    |-> [ab EXCEPT !.buffer = set(buf1, samples, wp1),
                                    !.writePosition = wp1 + Len(samples)],
               threw |-> FALSE ]

\* a frame reported as ready whatever the buffer holds
hasFrame_Always(ab) == TRUE

\* hasFrame()
hasFrame(ab) == ab.writePosition >= ab.frameSize

\* frameCount(): Math.floor(writePosition / frameSize)
frameCount(ab) == ab.writePosition \div ab.frameSize

\* sampleCount()
sampleCount(ab) == ab.writePosition

\* readFrame() that leaves the samples it returned at the front
readFrame_NoShift(ab) ==
    IF ~hasFrame(ab)
    THEN [ ab |-> ab, frame |-> << >> ]
    ELSE [ ab    |-> [ab EXCEPT !.writePosition = @ - ab.frameSize],
           frame |-> << slice(ab.buffer, 0, ab.frameSize) >> ]

\* readFrame(): the buffer after the call and the frame returned, << >> for null
readFrame(ab) ==
    IF ~hasFrame(ab)
    THEN [ ab |-> ab, frame |-> << >> ]
    ELSE [ ab    |-> [ab EXCEPT
                        !.buffer = copyWithin(ab.buffer, 0, ab.frameSize),
                        !.writePosition = @ - ab.frameSize],
           frame |-> << slice(ab.buffer, 0, ab.frameSize) >> ]

\* readAllFrames(): readFrame() until it returns null
RECURSIVE readAllFrames(_)
readAllFrames(ab) ==
    LET r == readFrame(ab)
    IN  IF r.frame = << >>
        THEN [ ab |-> ab, frames |-> << >> ]
        ELSE LET rest == readAllFrames(r.ab)
             IN  [ ab |-> rest.ab, frames |-> r.frame \o rest.frames ]

\* peek(count); count = -1 stands for the argument left out
peek(ab, count) ==
    LET length == IF count = -1 THEN ab.writePosition ELSE count
    IN  slice(ab.buffer, 0, Min(length, ab.writePosition))

\* clear()
clear(ab) == [ab EXCEPT !.writePosition = 0]

\* the object with its dead cells at 0
Settle(ab) ==
    [ab EXCEPT !.buffer = [i \in 1..Len(ab.buffer) |->
                              IF i <= ab.writePosition THEN ab.buffer[i] ELSE 0]]

\* new AudioBuffer(frameSize, maxFrames) for some frame size and frame count
BufferInit ==
    /\ \E frameSize \in 1..MaxFrameSize, maxFrames \in 1..MaxBufferFrames :
           audioBuffer = AudioBuffer(frameSize, maxFrames)
    /\ nextSample = 1
    /\ bufferCall = [ op |-> "constructor", samples |-> << >>,
                      returned |-> << >>, threw |-> FALSE ]

\* a caller pushes the next n samples of the stream
BufferPush(n) ==
    LET samples == Run(nextSample, n)
        r       == push(audioBuffer, samples)
    IN  /\ audioBuffer' = Settle(r.ab)
        /\ nextSample' = ((nextSample + n - 1) % SampleSpan) + 1
        /\ bufferCall' = [ op |-> "push", samples |-> samples,
                           returned |-> << >>, threw |-> r.threw ]

BufferReadFrame ==
    LET r == readFrame(audioBuffer)
    IN  /\ audioBuffer' = Settle(r.ab)
        /\ bufferCall' = [ op |-> "readFrame", samples |-> << >>,
                           returned |-> r.frame, threw |-> FALSE ]
        /\ UNCHANGED nextSample

BufferReadAllFrames ==
    LET r == readAllFrames(audioBuffer)
    IN  /\ audioBuffer' = Settle(r.ab)
        /\ bufferCall' = [ op |-> "readAllFrames", samples |-> << >>,
                           returned |-> r.frames, threw |-> FALSE ]
        /\ UNCHANGED nextSample

BufferPeek(count) ==
    /\ bufferCall' = [ op |-> "peek", samples |-> << >>,
                       returned |-> << peek(audioBuffer, count) >>,
                       threw |-> FALSE ]
    /\ UNCHANGED << audioBuffer, nextSample >>

BufferClear ==
    /\ audioBuffer' = Settle(clear(audioBuffer))
    /\ bufferCall' = [ op |-> "clear", samples |-> << >>,
                       returned |-> << >>, threw |-> FALSE ]
    /\ UNCHANGED nextSample

(***************************************************************************)
(* Properties of the frame buffer.                                         *)
(***************************************************************************)
Capacity == Len(audioBuffer.buffer)

\* the samples the buffer holds, oldest first
Contents(ab) == SubSeq(ab.buffer, 1, ab.writePosition)

\* the n samples pushed last, oldest first
Recent(n) == Run(nextSample - n + SampleSpan, n)

\* the last n elements of a sequence, all of it when it is shorter
LastN(seq, n) == SubSeq(seq, Max(Len(seq) - n, 0) + 1, Len(seq))

\* C11: whatever is pushed, read, peeked or cleared, chunks longer than the
\* capacity included, the sample count stays within 0..frameSize*maxFrames
\* and frameCount() stays within maxFrames.
C11_CountWithinCapacity ==
    /\ sampleCount(audioBuffer) \in 0..Capacity
    /\ frameCount(audioBuffer) <= Capacity \div audioBuffer.frameSize

\* C12: readFrame() hands out the pushed samples in push order, frameSize at
\* a time: each frame is the oldest frameSize samples not yet read, so N
\* frames pushed into an empty buffer in any chunking come back as the N
\* consecutive slices, and the buffer is empty after the last one.
C12_FramesInPushOrder ==
    /\ [](audioBuffer.writePosition >= 0 =>
             Contents(audioBuffer) = Recent(audioBuffer.writePosition))
    /\ [][ ( /\ bufferCall'.op = "readFrame"
             /\ audioBuffer.writePosition >= audioBuffer.frameSize )
           => /\ bufferCall'.returned =
                     << SubSeq(Recent(audioBuffer.writePosition),
                               1, audioBuffer.frameSize) >>
              /\ audioBuffer'.writePosition =
                     audioBuffer.writePosition - audioBuffer.frameSize
         ]_vars

\* samples 1..4 were pushed into a two-sample-frame buffer and the second
\* of the two frames has just been read, leaving the buffer empty
C12_Witness ==
    /\ audioBuffer.frameSize = 2
    /\ bufferCall.op = "readFrame"
    /\ bufferCall.returned = << << 3, 4 >> >>
    /\ nextSample = 5
    /\ audioBuffer.writePosition = 0

\* C13: a push that would exceed the capacity discards exactly the oldest
\* excess samples: the buffer then holds the most recent 'capacity' samples
\* of its previous contents followed by the chunk, in order.
C13_OverflowDropsOldest ==
    [][ ( /\ bufferCall'.op = "push"
          /\ audioBuffer.writePosition >= 0
          /\ audioBuffer.writePosition + Len(bufferCall'.samples) > Capacity )
        => Contents(audioBuffer') =
               LastN(Contents(audioBuffer) \o bufferCall'.samples, Capacity)
      ]_vars

\* C14: readFrame() on fewer than frameSize samples returns nothing and
\* leaves the buffer as it is; a successful readFrame() removes exactly the
\* frameSize oldest samples; peek() leaves the buffer as it is.
C14_ReadAndPeekEffects ==
    [][ /\ ( /\ bufferCall'.op = "readFrame"
             /\ audioBuffer.writePosition < audioBuffer.frameSize )
           => /\ bufferCall'.returned = << >>
              /\ audioBuffer' = audioBuffer
        /\ ( /\ bufferCall'.op = "readFrame"
             /\ audioBuffer.writePosition >= audioBuffer.frameSize )
           => /\ Len(bufferCall'.returned) = 1
              /\ audioBuffer'.writePosition =
                     audioBuffer.writePosition - audioBuffer.frameSize
              /\ Contents(audioBuffer') =
                     SubSeq(Contents(audioBuffer), audioBuffer.frameSize + 1,
                            audioBuffer.writePosition)
        /\ bufferCall'.op = "peek" => audioBuffer' = audioBuffer
      ]_vars

\* readFrame() has just returned nothing on a buffer that holds samples,
\* fewer than a frame
C14_Witness ==
    /\ bufferCall.op = "readFrame"
    /\ bufferCall.returned = << >>
    /\ audioBuffer.writePosition > 0
    /\ audioBuffer.writePosition < audioBuffer.frameSize


(***************************************************************************)
(* Telephony leg: TwilioMediaHandler (src/src/twilio/media-streams.ts) and *)
(* the listeners of handleMediaStream (src/src/audio/index.ts).            *)
(*                                                                         *)
(* A nullable string is a sequence: << >> for null, << s >> for the        *)
(* string s.  The session behind the bridge is the environment here: it    *)
(* may emit audio at any time.                                             *)
(***************************************************************************)
Null == << >>

\* stream and call ids a Start message may carry
StreamSids == { << "" >>, << "MZ1" >>, << "MZ2" >> }

CallSidOf(sid) == IF sid = << "MZ2" >> THEN << "CA2" >> ELSE << "CA1" >>

\* messages the telephony peer may send: event, and for a Start whether it
\* has a start body and the stream id in it
TwilioMessages ==
    { [ event |-> e, body |-> FALSE, sid |-> Null ] :
          e \in { "connected", "start", "media", "stop", "dtmf", "mark" } }
    \cup { [ event |-> "start", body |-> TRUE, sid |-> s ] : s \in StreamSids }
    \cup { [ event |-> "media", body |-> TRUE, sid |-> Null ],
           [ event |-> "dtmf", body |-> TRUE, sid |-> Null ] }

\* lengths of the 24 kHz chunks the session emits as audio
BotPcmLengths == { 0, 3, 4 }

\* the chunk passed on at the rate it came with
resampleLength_Unchanged(n, fromRate, toRate) == n

\* resample(audio, fromRate, toRate): the length of the result,
\* Math.ceil(audio.length / (fromRate / toRate))
resampleLength(n, fromRate, toRate) ==
    IF fromRate = toRate THEN n
    ELSE (n * toRate + fromRate - 1) \div fromRate

\* listenerSid: the stream id the handler holds while the listeners of the
\* emitted event run
NoCall == [ op |-> "constructor", outcome |-> "returned", message |-> << >>,
            sent |-> << >>, emitted |-> << >>, listenerSid |-> Null ]

\* field initialisers of TwilioMediaHandler and the start of handleMediaStream
TwilioInit ==
    /\ streamSid = Null
    /\ callSid = Null
    /\ mediaSequence = 0
    /\ bridgeStreamSid = Null
    /\ twilioSocket = "OPEN"
    /\ lastStreamEvent = "none"
    /\ twilioCall = NoCall

\* the guard left out
StreamNotStarted_Never(sid) == FALSE

\* !this.streamSid: null and the empty string are falsy
StreamNotStarted(sid) == sid = Null \/ sid = << "" >>

\* the getter testing the stream id for truthiness
isActive_Truthy == ~StreamNotStarted(streamSid)

\* get isActive(): this.streamSid !== null
isActive == streamSid # Null

\* the media message carrying the call id in place of the stream id
createAudioMessage_CallSid(sid, n) ==
    IF StreamNotStarted(sid)
    THEN [ threw |-> TRUE, message |-> << >> ]
    ELSE [ threw |-> FALSE,
           message |-> << [ event |-> "media", streamSid |-> CallSidOf(sid),
                            bytes |-> n ] >> ]

\* createAudioMessage(pcm) for n samples: the JSON message, whose payload
\* stands for the base64 text of n mu-law bytes
createAudioMessage(sid, n) ==
    IF StreamNotStarted(sid)
    THEN [ threw |-> TRUE, message |-> << >> ]
    ELSE [ threw |-> FALSE,
           message |-> << [ event |-> "media", streamSid |-> sid, bytes |-> n ] >> ]

\* createMarkMessage(name)
createMarkMessage(sid) ==
    IF StreamNotStarted(sid)
    THEN [ threw |-> TRUE, message |-> << >> ]
    ELSE [ threw |-> FALSE,
           message |-> << [ event |-> "mark", streamSid |-> sid, bytes |-> 0 ] >> ]

\* createClearMessage()
createClearMessage(sid) ==
    IF StreamNotStarted(sid)
    THEN [ threw |-> TRUE, message |-> << >> ]
    ELSE [ threw |-> FALSE,
           message |-> << [ event |-> "clear", streamSid |-> sid, bytes |-> 0 ] >> ]

\* ws.on('message') of the telephony socket -> handleMessage(message), with
\* the start and stop listeners of the bridge (their part up to the first
\* await; what they do to the session is not part of this state)
HandleMessage(m) ==
    /\ twilioSocket = "OPEN"
    /\ CASE m.event = "start" /\ m.body ->
              /\ streamSid' = m.sid
              /\ callSid' = CallSidOf(m.sid)
              /\ bridgeStreamSid' = m.sid
              /\ lastStreamEvent' = "start"
              /\ twilioCall' = [NoCall EXCEPT !.op = "handleMessage",
                                              !.emitted = << "start" >>,
                                              !.listenerSid = m.sid]
         [] m.event = "stop" ->
              /\ bridgeStreamSid' = Null
              /\ streamSid' = Null
              /\ callSid' = Null
              /\ lastStreamEvent' = "stop"
              /\ twilioCall' = [NoCall EXCEPT !.op = "handleMessage",
                                              !.emitted = << "stop" >>,
                                              !.listenerSid = streamSid]
         [] OTHER ->
              /\ twilioCall' =
                    [NoCall EXCEPT
                       !.op = "handleMessage",
                       !.emitted =
                          IF m.event = "connected" THEN << "connected" >>
                          ELSE IF m.event = "media" /\ m.body THEN << "audio" >>
                          ELSE IF m.event = "dtmf" /\ m.body THEN << "dtmf" >>
                          ELSE << >>,
                       !.listenerSid =
                          IF \/ m.event = "connected"
                             \/ (m.event \in { "media", "dtmf" } /\ m.body)
                          THEN streamSid ELSE Null]
              /\ UNCHANGED << streamSid, callSid, bridgeStreamSid,
                              lastStreamEvent >>
    /\ UNCHANGED << mediaSequence, twilioSocket >>

\* a caller invokes createAudioMessage(pcm) with n samples
CreateAudioMessage(n) ==
    LET r == createAudioMessage(streamSid, n)
    IN  /\ ~r.threw => mediaSequence < MaxMediaSequence
        /\ mediaSequence' = IF r.threw THEN mediaSequence ELSE mediaSequence + 1
        /\ twilioCall' = [NoCall EXCEPT
                            !.op = "createAudioMessage",
                            !.outcome = IF r.threw THEN "threw" ELSE "returned",
                            !.message = r.message]
        /\ UNCHANGED << streamSid, callSid, bridgeStreamSid, twilioSocket,
                        lastStreamEvent >>

\* a caller invokes createMarkMessage(name)
CreateMarkMessage ==
    LET r == createMarkMessage(streamSid)
    IN  /\ twilioCall' = [NoCall EXCEPT
                            !.op = "createMarkMessage",
                            !.outcome = IF r.threw THEN "threw" ELSE "returned",
                            !.message = r.message]
        /\ UNCHANGED << streamSid, callSid, mediaSequence, bridgeStreamSid,
                        twilioSocket, lastStreamEvent >>

\* a caller invokes createClearMessage()
CreateClearMessage ==
    LET r == createClearMessage(streamSid)
    IN  /\ twilioCall' = [NoCall EXCEPT
                            !.op = "createClearMessage",
                            !.outcome = IF r.threw THEN "threw" ELSE "returned",
                            !.message = r.message]
        /\ UNCHANGED << streamSid, callSid, mediaSequence, bridgeStreamSid,
                        twilioSocket, lastStreamEvent >>

\* a caller invokes reset()
Reset ==
    /\ streamSid' = Null
    /\ callSid' = Null
    /\ mediaSequence' = 0
    /\ twilioCall' = [NoCall EXCEPT !.op = "reset"]
    /\ UNCHANGED << bridgeStreamSid, twilioSocket, lastStreamEvent >>

\* bot.on('audio') of the bridge, for a 24 kHz chunk of n samples: resample
\* to 8 kHz, createAudioMessage, ws.send if the socket is open; an
\* exception of createAudioMessage is caught and logged
BotAudio(n) ==
    IF bridgeStreamSid = Null \/ bridgeStreamSid = << "" >>
    THEN /\ twilioCall' = [NoCall EXCEPT !.op = "bot audio"]
         /\ UNCHANGED << streamSid, callSid, mediaSequence, bridgeStreamSid,
                         twilioSocket, lastStreamEvent >>
    ELSE LET r == createAudioMessage(streamSid, resampleLength(n, 24000, 8000))
         IN  /\ ~r.threw => mediaSequence < MaxMediaSequence
             /\ mediaSequence' =
                   IF r.threw THEN mediaSequence ELSE mediaSequence + 1
             /\ twilioCall' =
                   [NoCall EXCEPT
                      !.op = "bot audio",
                      !.message = r.message,
                      !.sent = IF ~r.threw /\ twilioSocket = "OPEN"
                               THEN r.message ELSE << >>]
             /\ UNCHANGED << streamSid, callSid, bridgeStreamSid, twilioSocket,
                             lastStreamEvent >>

\* the telephony socket closes: ws.on('close') ends the session
TwilioSocketClose ==
    /\ twilioSocket = "OPEN"
    /\ twilioSocket' = "CLOSED"
    /\ twilioCall' = [NoCall EXCEPT !.op = "socket close"]
    /\ UNCHANGED << streamSid, callSid, mediaSequence, bridgeStreamSid,
                    lastStreamEvent >>

(***************************************************************************)
(* Properties of the telephony leg.                                        *)
(***************************************************************************)
HandlerState == << streamSid, callSid, mediaSequence >>

CreateOps == { "createAudioMessage", "createMarkMessage", "createClearMessage" }

C30_ActiveFromStartToStop ==
    /\ []( isActive => /\ lastStreamEvent = "start"
                       /\ streamSid = bridgeStreamSid
                       /\ callSid = CallSidOf(streamSid) )
    /\ [][ \A m \in TwilioMessages :
              HandleMessage(m) =>
                 IF m.event = "start" /\ m.body
                 THEN /\ isActive'
                      /\ streamSid' = m.sid
                      /\ callSid' = CallSidOf(m.sid)
                      /\ twilioCall'.emitted = << "start" >>
                 ELSE IF m.event = "stop"
                 THEN /\ ~isActive'
                      /\ callSid' = Null
                      /\ twilioCall'.emitted = << "stop" >>
                 ELSE /\ UNCHANGED << streamSid, callSid >>
                      /\ isActive' = isActive
         ]_vars
    /\ [][ (isActive /\ ~isActive')
              => (twilioCall'.emitted = << "stop" >> \/ twilioCall'.op = "reset")
         ]_vars
    /\ [][ (streamSid' # streamSid \/ callSid' # callSid)
              => \/ twilioCall'.emitted \in { << "start" >>, << "stop" >> }
                 \/ twilioCall'.op = "reset"
         ]_vars

\* a Start has just opened a second stream, after one that carried audio
C30_Witness ==
    /\ twilioCall.op = "handleMessage"
    /\ twilioCall.emitted = << "start" >>
    /\ isActive
    /\ streamSid = << "MZ2" >>
    /\ callSid = << "CA2" >>
    /\ mediaSequence > 0

\* C31: on a Stop the handler clears streamSid and callSid before it emits
\* stop: while the stop listeners run the handler holds no stream id
\* (isActive is false) and createAudioMessage would throw.
C31_StopListenerSeesInactive ==
    (twilioCall.op = "handleMessage" /\ twilioCall.emitted = << "stop" >>)
        => /\ twilioCall.listenerSid = Null
           /\ \A n \in BotPcmLengths :
                  createAudioMessage(twilioCall.listenerSid, n).threw

(***************************************************************************)
(* Session orchestrator (src/src/voice-bot.ts, class VoiceBot).            *)
(*                                                                         *)
(* The client variables stand for the engine client the session created   *)
(* last; every startSession() constructs a new one.  A client that has     *)
(* been replaced keeps its sockets, timers and listeners: it is kept as    *)
(* an entry of orphans, reduced to the phase it is in and to the session   *)
(* continuations that still wait for it.                                   *)
(*                                                                         *)
(* An async method runs up to its first await in the step that calls it;   *)
(* what follows the await runs in the step that settles the awaited        *)
(* promise when that is a socket event, and is queued in jobs when the     *)
(* promise is settled already.  Socket and timer events wait until jobs is *)
(* empty (promise jobs run before the next event); the caller may go on    *)
(* calling methods before a queued job runs, except before the catch block *)
(* that follows a rejection by a socket event.                             *)
(*                                                                         *)
(* The samples of the input stream are numbered after resampling, and the  *)
(* numbering starts again after every sendAudio(): the samples the input   *)
(* buffer holds are 1, 2, ... in the order they came in, and the samples   *)
(* of the next chunk continue from there.                                  *)
(***************************************************************************)
TWILIO_SAMPLE_RATE == 8000

PERSONAPLEX_SAMPLE_RATE == 24000

\* default of the constructor parameter maxFrames of AudioBuffer
DefaultMaxFrames == 10

\* frameSize of the input buffer: Math.round(PERSONAPLEX_SAMPLE_RATE *
\* FRAME_SIZE_MS / 1000), 1920 in the program, scaled down here
SessionFrameSize == MaxFrameSize

\* lengths of the chunks a caller hands to sendAudio(), in samples at the
\* input rate: from 8000 Hz they make 0, 3 and 6 samples at the engine rate
PcmLengths == { 0, 1, 2 }

\* the inputSampleRate option of startSession(): handleMediaStream, the one
\* caller, passes TWILIO_SAMPLE_RATE
SessionRates == { TWILIO_SAMPLE_RATE }

\* frames the engine delivers to a session: the handshake, audio, text
\* and an error report
SessionFrames ==
    { <<HANDSHAKE>>, <<AUDIO, 7>>, <<TEXT, 65>>, <<ERROR, 69>> } \cup CorruptFrames

\* OpusCodec.encode(frame): the packet for a frame; the codec is opaque,
\* a packet stands for the frame it was made of
opusEncode(frame) == [i \in 1..Len(frame) |-> 100 + frame[i]]

\* a record of the method, listener or continuation that ran last: what
\* its caller got, the session events it emitted, the number of samples
\* sendAudio() pushed, the frames it read from the input buffer and which of
\* them OpusCodec.encode() refused
BotCall(op, result, ev) ==
    [ op |-> op, outcome |-> result, emitted |-> ev, samples |-> 0,
      frames |-> << >>, failed |-> {} ]

NoBotCall == BotCall("constructor", "returned", << >>)

\* field initialisers and constructor of VoiceBot
SessionInit ==
    /\ isSessionActive = FALSE
    /\ personaplexClient = Null
    /\ inputBuffer = Null
    /\ opusCodec = << "codec" >>
    /\ inputSampleRate = TWILIO_SAMPLE_RATE
    /\ clientsCreated = 0
    /\ closeWaiters = << >>
    /\ orphans = << >>
    /\ jobs = << >>
    /\ botCall = NoBotCall

\* the client variables left as they are, with no handler of the client run
ClientQuiet ==
    /\ called' = "none"
    /\ outcome' = "returned"
    /\ emitted' = << >>
    /\ written' = << >>
    /\ UNCHANGED << ws, isConnecting, isReady, shouldReconnect,
                    reconnectAttempts, autoReconnect, urlValid, sockets,
                    retryTimers, reconnectSleepers, connectCalls,
                    maxReachedErrors, closeRequested >>

\* new PersonaPlexClient(...) followed by connect() on it
FreshConnect ==
    /\ called' = "connect"
    /\ closeRequested' = FALSE
    /\ isReady' = FALSE
    /\ shouldReconnect' = TRUE
    /\ reconnectAttempts' = 0
    /\ retryTimers' = << >>
    /\ reconnectSleepers' = 0
    /\ maxReachedErrors' = 0
    /\ emitted' = << >>
    /\ written' = << >>
    /\ IF urlValid
       THEN /\ isConnecting' = TRUE
            /\ connectCalls' = << NewCall("caller") >>
            /\ sockets' = << NewSocket(1) >>
            /\ ws' = 1
            /\ outcome' = "pending"
       ELSE /\ isConnecting' = FALSE
            /\ connectCalls' = << >>
            /\ sockets' = << >>
            /\ ws' = 0
            /\ outcome' = "rejected"
    /\ UNCHANGED << autoReconnect, urlValid >>

\* startSession() awaits connect() on the client created last
StartPending ==
    /\ clientsCreated > 0
    /\ Len(connectCalls) >= 1
    /\ connectCalls[1].state = "pending"

\* a client that startSession() has replaced:
\*   phase  "connecting" (sockets or timers pending, no handshake),
\*          "ready", "closing" (ws.close() called by close()), "dead"
\*   ready  its isReady
\*   start  a startSession() still awaits its connect()
\*   close  the cleanup() calls that await its close(), by their caller
Orphaned ==
    [ phase |-> IF \E s \in SocketIds : sockets[s].closePending THEN "closing"
                ELSE IF isReady THEN "ready"
                ELSE IF \/ \E s \in SocketIds : Live(s)
                        \/ retryTimers # << >>
                        \/ reconnectSleepers > 0
                     THEN "connecting"
                     ELSE "dead",
      ready |-> isReady,
      start |-> StartPending,
      close |-> [i \in 1..Len(closeWaiters) |-> closeWaiters[i].who] ]

\* an orphan nothing can happen to any more
Inert(o) == o.phase = "dead" /\ ~o.start /\ o.close = << >>

\* the 'disconnected' listener emitting 'ended' without the test of the flag
ListenerEvents_NoActiveTest(ev, decodeOk) ==
    LET F[i \in 0..Len(ev)] ==
            IF i = 0 THEN << >>
            ELSE CASE ev[i] = "audio" ->
                        IF opusCodec # Null /\ decodeOk
                        THEN Append(F[i - 1], "audio") ELSE F[i - 1]
                   [] ev[i] = "text" -> Append(F[i - 1], "text")
                   [] ev[i] = "error" -> Append(F[i - 1], "error")
                   [] ev[i] = "disconnected" -> Append(F[i - 1], "ended")
                   [] OTHER -> F[i - 1]
    IN  F[Len(ev)]

\* the listeners startSession() puts on a client, run on the events ev of
\* one handler of that client: the session events they emit; decodeOk tells
\* whether OpusCodec.decode succeeds on the audio received
ListenerEvents(ev, decodeOk) ==
    LET F[i \in 0..Len(ev)] ==
            IF i = 0 THEN << >>
            ELSE CASE ev[i] = "audio" ->
                        IF opusCodec # Null /\ decodeOk
                        THEN Append(F[i - 1], "audio") ELSE F[i - 1]
                   [] ev[i] = "text" -> Append(F[i - 1], "text")
                   [] ev[i] = "error" -> Append(F[i - 1], "error")
                   [] ev[i] = "disconnected" ->
                        IF isSessionActive /\ Count(SubSeq(ev, 1, i - 1), "disconnected") = 0
                        THEN Append(F[i - 1], "ended") ELSE F[i - 1]
                   [] OTHER -> F[i - 1]
    IN  F[Len(ev)]

\* cleanup() after its await: the fields it releases
Released ==
    /\ personaplexClient' = Null
    /\ opusCodec' = Null
    /\ inputBuffer' = Null

\* the elements of seq at the indexes in keep, in order
Pick(seq, keep) ==
    LET F[i \in 0..Len(seq)] ==
            IF i = 0 THEN << >>
            ELSE IF i \in keep THEN Append(F[i - 1], seq[i]) ELSE F[i - 1]
    IN  F[Len(seq)]

Job(kind, who, urgent) == [ kind |-> kind, who |-> who, urgent |-> urgent ]

\* the continuations of cleanup() calls, by their callers in who, that run
\* right after the handler that settled close()
ReleaseJobs(who) == [i \in 1..Len(who) |-> Job("released", who[i], TRUE)]

\* the 'disconnected' listener: the flag after the events ev
ActiveAfter(ev) ==
    IF Count(ev, "disconnected") > 0 THEN FALSE ELSE isSessionActive

(***************************************************************************)
(* startSession(), sendAudio(), endSession(), called by the application.   *)
(***************************************************************************)
\* may the application run now?  Not between a socket event and the
\* continuations that event has made runnable.
CallerMayRun == IF jobs = << >> THEN TRUE ELSE ~Head(jobs).urgent

\* startSession(): the test of the active flag left out
StartSessionRefused_Never == FALSE

\* startSession(): throw new Error('Session already active')
StartSessionRefused == isSessionActive

\* startSession(options) with a buffer of maxFrames frames of frameSize
\* samples
StartSessionSized(rate, frameSize, maxFrames) ==
    /\ CallerMayRun
    /\ IF StartSessionRefused
       THEN /\ botCall' = BotCall("startSession", "already active", << >>)
            /\ ClientQuiet
            /\ UNCHANGED << isSessionActive, personaplexClient, inputBuffer,
                            opusCodec, inputSampleRate, clientsCreated,
                            closeWaiters, orphans, jobs >>
       ELSE /\ clientsCreated < MaxClients
            /\ inputSampleRate' = rate
            /\ inputBuffer' = << AudioBuffer(frameSize, maxFrames) >>
            /\ opusCodec' = << "codec" >>
            /\ personaplexClient' = << clientsCreated + 1 >>
            /\ clientsCreated' = clientsCreated + 1
            /\ orphans' = IF clientsCreated = 0 \/ Inert(Orphaned)
                          THEN orphans ELSE Append(orphans, Orphaned)
            /\ closeWaiters' = << >>
            /\ FreshConnect
            /\ jobs' = IF urlValid THEN jobs
                       ELSE Append(jobs, Job("catch", "startSession", FALSE))
            /\ botCall' = BotCall("startSession", "pending", << >>)
            /\ UNCHANGED isSessionActive

\* startSession(options), the frames scaled down to SessionFrameSize samples
StartSession(rate) ==
    StartSessionSized(rate, SessionFrameSize, DefaultMaxFrames)

\* the next m samples of the input stream, after those ab holds
Incoming(ab, m) == [i \in 1..m |-> ab.writePosition + i]

\* the buffer after read samples of the stream have been read from it: the
\* samples it holds take the numbers they have in the stream that is left
Renumbered(ab, read) ==
    [ab EXCEPT !.buffer = [i \in 1..Len(ab.buffer) |->
                              IF i <= ab.writePosition THEN ab.buffer[i] - read
                              ELSE 0]]

\* the loop handing the frames it reads to the encoder newest first
RECURSIVE drainFrames_NewestFirst(_)
drainFrames_NewestFirst(ab) ==
    IF ~hasFrame(ab)
    THEN [ ab |-> ab, frames |-> << >> ]
    ELSE LET r    == readFrame(ab)
             rest == drainFrames_NewestFirst(r.ab)
         IN  [ ab |-> rest.ab, frames |-> rest.frames \o r.frame ]

\* an if in place of the while: at most one frame is read
drainFrames_OneFrame(ab) ==
    IF ~hasFrame(ab)
    THEN [ ab |-> ab, frames |-> << >> ]
    ELSE LET r == readFrame(ab)
         IN  [ ab |-> r.ab, frames |-> r.frame ]

\* sendAudio(): while (inputBuffer.hasFrame()) readFrame(), the buffer
\* after the loop and the frames read
RECURSIVE drainFrames(_)
drainFrames(ab) ==
    IF ~hasFrame(ab)
    THEN [ ab |-> ab, frames |-> << >> ]
    ELSE LET r    == readFrame(ab)
             rest == drainFrames(r.ab)
         IN  [ ab |-> rest.ab, frames |-> r.frame \o rest.frames ]

\* one try block around the whole loop: the first failure ends the loop
encodeFrames_OneTry(frames, bad) ==
    LET ok == { i \in 1..Len(frames) : \A j \in 1..i : j \notin bad }
    IN  Pick([i \in 1..Len(frames) |-> opusEncode(frames[i])], ok)

\* sendAudio(), the body of the loop: try { encode(frame) ... } catch for
\* each frame, encode() throwing on the frames whose position is in bad;
\* the packets handed to the client, in order
encodeFrames(frames, bad) ==
    Pick([i \in 1..Len(frames) |-> opusEncode(frames[i])],
         (1..Len(frames)) \ bad)

\* personaplexClient.sendAudio(opusPacket) for the packets in order: the
\* frames written to the socket
Forwarded(packets) ==
    IF SendAudioAllowed
    THEN [i \in 1..Len(packets) |->
              [ socket |-> ws, data |-> encodeAudioMessage(packets[i]) ]]
    ELSE << >>

\* the guard without its test of the active flag
SendRefused_NoActiveTest == personaplexClient = Null \/ inputBuffer = Null

\* sendAudio(): throw new Error('Session not active')
SendRefused ==
    ~isSessionActive \/ personaplexClient = Null \/ inputBuffer = Null

\* sendAudio(pcm) with n samples in pcm; encode() throws on the frames
\* whose position in this call is in bad
SessionSendAudio(n) ==
    /\ CallerMayRun
    /\ IF SendRefused
       THEN /\ botCall' = BotCall("sendAudio", "threw", << >>)
            /\ written' = << >>
            /\ UNCHANGED inputBuffer
       ELSE LET m       == resampleLength(n, inputSampleRate, PERSONAPLEX_SAMPLE_RATE)
                pushed  == push(inputBuffer[1], Incoming(inputBuffer[1], m))
                drained == drainFrames(pushed.ab)
                frames  == IF opusCodec = Null THEN << >> ELSE drained.frames
            IN  IF pushed.threw
                THEN /\ inputBuffer' = << Renumbered(pushed.ab, 0) >>
                     /\ written' = << >>
                     /\ botCall' = BotCall("sendAudio", "threw", << >>)
                ELSE \E bad \in SUBSET (1..Len(frames)) :
                     /\ inputBuffer' =
                            << Renumbered(drained.ab,
                                          Len(drained.frames) * drained.ab.frameSize) >>
                     /\ written' = Forwarded(encodeFrames(frames, bad))
                     /\ botCall' = [ BotCall("sendAudio", "returned", << >>)
                                       EXCEPT !.samples = m,
                                              !.frames = drained.frames,
                                              !.failed = bad ]
    /\ called' = "sendAudio"
    /\ outcome' = "returned"
    /\ emitted' = << >>
    /\ UNCHANGED << ws, isConnecting, isReady, shouldReconnect,
                    reconnectAttempts, autoReconnect, urlValid, sockets,
                    retryTimers, reconnectSleepers, connectCalls,
                    maxReachedErrors, closeRequested >>
    /\ UNCHANGED << isSessionActive, personaplexClient, opusCodec,
                    inputSampleRate, clientsCreated, closeWaiters, orphans,
                    jobs >>

\* cleanup() up to its await, or to its end when there is no client: it
\* calls close() on the client.  who is the method that called cleanup(),
\* rest the continuations queued already, after is what who does once
\* cleanup() has returned when that is known by now.  close() on a client
\* without a socket is settled when it returns, and the rest of cleanup()
\* then runs before anything that waits for startSession() to reject.
CleanupStarts(who, rest, after) ==
    IF personaplexClient = Null
    THEN /\ opusCodec' = Null
         /\ inputBuffer' = Null
         /\ ClientQuiet
         /\ jobs' = rest \o after
         /\ UNCHANGED << personaplexClient, closeWaiters >>
    ELSE /\ Close
         /\ IF outcome' = "pending"
            THEN /\ closeWaiters' =
                        Append(closeWaiters, [ socket |-> ws, who |-> who ])
                 /\ jobs' = rest
                 /\ UNCHANGED << personaplexClient, opusCodec, inputBuffer >>
            ELSE IF who = "startSession" /\ ws = 0
            THEN /\ Released
                 /\ jobs' = rest
                 /\ UNCHANGED closeWaiters
            ELSE /\ jobs' = Append(rest, Job("released", who, FALSE))
                 /\ UNCHANGED << personaplexClient, opusCodec, inputBuffer,
                                 closeWaiters >>

\* endSession()
EndSession ==
    /\ CallerMayRun
    /\ IF ~isSessionActive
       THEN /\ botCall' = BotCall("endSession", "resolved", << >>)
            /\ ClientQuiet
            /\ UNCHANGED << isSessionActive, personaplexClient, inputBuffer,
                            opusCodec, closeWaiters, jobs >>
       ELSE /\ isSessionActive' = FALSE
            /\ CleanupStarts("endSession", jobs, << Job("ended", "endSession", FALSE) >>)
            /\ botCall' = BotCall("endSession", "pending", << >>)
    /\ UNCHANGED << inputSampleRate, clientsCreated, orphans >>

(***************************************************************************)
(* Continuations of startSession(), endSession() and cleanup().            *)
(***************************************************************************)
\* startSession() after await connect() has returned
Started ==
    /\ jobs # << >>
    /\ Head(jobs).kind = "started"
    /\ isSessionActive' = TRUE
    /\ botCall' = BotCall("startSession", "resolved", << "ready" >>)
    /\ jobs' = Tail(jobs)
    /\ ClientQuiet
    /\ UNCHANGED << personaplexClient, inputBuffer, opusCodec, inputSampleRate,
                    clientsCreated, closeWaiters, orphans >>

\* startSession(), the catch block: this.cleanup() without await, then
\* throw error
Catch ==
    /\ jobs # << >>
    /\ Head(jobs).kind = "catch"
    /\ CleanupStarts("startSession", Tail(jobs), << >>)
    /\ botCall' = BotCall("startSession", "rejected", << >>)
    /\ UNCHANGED << isSessionActive, inputSampleRate, clientsCreated, orphans >>

\* cleanup() after await close() has returned, then what its caller does
\* next: endSession() emits 'ended'
CleanupEnds ==
    /\ jobs # << >>
    /\ Head(jobs).kind = "released"
    /\ Released
    /\ botCall' = IF Head(jobs).who = "endSession"
                  THEN BotCall("endSession", "resolved", << "ended" >>)
                  ELSE BotCall("cleanup", "resolved", << >>)
    /\ jobs' = Tail(jobs)
    /\ ClientQuiet
    /\ UNCHANGED << isSessionActive, inputSampleRate, clientsCreated,
                    closeWaiters, orphans >>

\* endSession() after a cleanup() that had no client to close
Ended ==
    /\ jobs # << >>
    /\ Head(jobs).kind = "ended"
    /\ botCall' = BotCall("endSession", "resolved", << "ended" >>)
    /\ jobs' = Tail(jobs)
    /\ ClientQuiet
    /\ UNCHANGED << isSessionActive, personaplexClient, inputBuffer, opusCodec,
                    inputSampleRate, clientsCreated, closeWaiters, orphans >>

(***************************************************************************)
(* Socket and timer events of the client created last, with the listeners  *)
(* startSession() put on it and the continuations they make runnable.      *)
(***************************************************************************)
\* a rejected connect() taken for a success
AwaitConnect_NoCatch(state) ==
    IF state = "pending" THEN << >>
    ELSE << Job("started", "startSession", TRUE) >>

\* startSession(): try { await connect(); ... } catch, what runs once the
\* promise of connect() is in the given state
AwaitConnect(state) ==
    CASE state = "resolved" -> << Job("started", "startSession", TRUE) >>
      [] state = "rejected" -> << Job("catch", "startSession", TRUE) >>
      [] OTHER -> << >>

\* the session's part of a handler of the client: the listeners run on the
\* events the handler emitted, a connect() that settled wakes
\* startSession(), a close() that settled wakes cleanup()
SessionReacts(decodeOk) ==
    LET closed  == { i \in 1..Len(closeWaiters) :
                        /\ sockets[closeWaiters[i].socket].readyState # "CLOSED"
                        /\ sockets'[closeWaiters[i].socket].readyState = "CLOSED" }
        done    == Pick(closeWaiters, closed)
    IN  /\ isSessionActive' = ActiveAfter(emitted')
        /\ botCall' = BotCall("engine event", "returned",
                              ListenerEvents(emitted', decodeOk))
        /\ closeWaiters' = Pick(closeWaiters, (1..Len(closeWaiters)) \ closed)
        /\ jobs' = (IF StartPending THEN AwaitConnect(connectCalls'[1].state)
                    ELSE << >>)
                   \o ReleaseJobs([i \in 1..Len(done) |-> done[i].who])
        /\ UNCHANGED << personaplexClient, inputBuffer, opusCodec,
                        inputSampleRate, clientsCreated, orphans >>

(***************************************************************************)
(* Events of the clients startSession() has replaced.                      *)
(***************************************************************************)
\* an orphan's handler ran: ev are the events it emitted, o is the orphan
\* afterwards, queued the continuations it made runnable
OrphanStep(i, o, ev, decodeOk, queued) ==
    /\ jobs = << >>
    /\ orphans' = IF Inert(o) THEN Pick(orphans, (1..Len(orphans)) \ { i })
                  ELSE [orphans EXCEPT ![i] = o]
    /\ isSessionActive' = ActiveAfter(ev)
    /\ botCall' = BotCall("engine event", "returned", ListenerEvents(ev, decodeOk))
    /\ jobs' = queued
    /\ ClientQuiet
    /\ UNCHANGED << personaplexClient, inputBuffer, opusCodec, inputSampleRate,
                    clientsCreated, closeWaiters >>

\* the Handshake frame arrives on an orphan's socket
OrphanHandshake(i) ==
    /\ i \in 1..Len(orphans)
    /\ orphans[i].phase = "connecting"
    /\ OrphanStep(i, [orphans[i] EXCEPT !.phase = "ready", !.ready = TRUE,
                                        !.start = FALSE],
                  << >>, TRUE,
                  IF orphans[i].start
                  THEN << Job("started", "startSession", TRUE) >> ELSE << >>)

\* an orphan runs out of connection attempts
OrphanFails(i) ==
    /\ i \in 1..Len(orphans)
    /\ orphans[i].phase = "connecting"
    /\ OrphanStep(i, [orphans[i] EXCEPT !.phase = "dead", !.start = FALSE],
                  << "error" >>, TRUE,
                  IF orphans[i].start
                  THEN << Job("catch", "startSession", TRUE) >> ELSE << >>)

\* an audio or text frame arrives on an orphan's socket
OrphanMessage(i, name, decodeOk) ==
    /\ i \in 1..Len(orphans)
    /\ orphans[i].ready
    /\ orphans[i].phase \in { "ready", "closing" }
    /\ OrphanStep(i, orphans[i], << name >>, decodeOk, << >>)

\* the socket of an orphan that was ready closes, close() not called
OrphanDisconnects(i) ==
    /\ i \in 1..Len(orphans)
    /\ orphans[i].phase = "ready"
    /\ OrphanStep(i, [orphans[i] EXCEPT !.phase = "connecting", !.ready = FALSE],
                  << "disconnected" >>, TRUE, << >>)

\* the socket close() is waiting for closes
OrphanClosed(i) ==
    /\ i \in 1..Len(orphans)
    /\ orphans[i].phase = "closing"
    /\ OrphanStep(i, [orphans[i] EXCEPT !.phase = "dead", !.ready = FALSE,
                                        !.start = FALSE, !.close = << >>],
                  IF orphans[i].ready THEN << "disconnected" >> ELSE << >>,
                  TRUE,
                  (IF orphans[i].start
                   THEN << Job("catch", "startSession", TRUE) >> ELSE << >>)
                  \o ReleaseJobs(orphans[i].close))

(***************************************************************************)
(* Properties of the session orchestrator.                                 *)
(***************************************************************************)
SessionResources == << personaplexClient, inputBuffer, opusCodec >>

\* the history of a step of the session: a startSession() that went ahead
\* opens a new round, an 'ended' event closes it
TrackEnded ==
    endedSinceStart' =
        IF botCall'.op = "startSession" /\ botCall'.outcome = "pending" THEN FALSE
        ELSE IF Count(botCall'.emitted, "ended") > 0 THEN TRUE
        ELSE endedSinceStart

\* this step is a call of startSession() by the application
StartSessionCalled ==
    /\ botCall'.op = "startSession"
    /\ botCall'.outcome \in { "pending", "already active" }

\* C16: startSession() on an active session throws 'Session already
\* active' and changes nothing: no engine client is created, and the
\* client, the buffer, the codec and the active flag stay as they are.
C16_StartOnActiveRefused ==
    [][ (isSessionActive /\ StartSessionCalled) =>
            /\ botCall'.outcome = "already active"
            /\ UNCHANGED << isSessionActive, SessionResources, inputSampleRate,
                            clientsCreated, closeWaiters, orphans, jobs,
                            ClientState >> ]_vars

\* startSession() was refused on a session that holds a client
C16_Witness ==
    /\ botCall.op = "startSession"
    /\ botCall.outcome = "already active"
    /\ isSessionActive
    /\ personaplexClient # Null

\* C17: when the engine connection fails during startSession(), the call
\* rejects, the session is not active, no ready event is emitted and the
\* session holds neither the client nor the buffer nor the codec any more.
C17_FailedStartReleases ==
    [][ (botCall'.op = "startSession" /\ botCall'.outcome = "rejected") =>
            /\ ~isSessionActive'
            /\ Count(botCall'.emitted, "ready") = 0
            /\ personaplexClient' = Null
            /\ inputBuffer' = Null
            /\ opusCodec' = Null ]_vars

\* startSession() calls that await connect()
PendingStarts ==
    (IF StartPending THEN 1 ELSE 0)
    + Cardinality({ i \in 1..Len(orphans) : orphans[i].start })

\* continuations of a connect() that succeeded, among those in q
StartedJobs(q) == Cardinality({ i \in 1..Len(q) : q[i].kind = "started" })

\* this step is the handler of a Handshake frame, on the socket of the
\* client created last or of an orphan
HandshakeObserved ==
    \/ called' = "message" /\ Count(emitted', "ready") = 1
    \/ /\ called' = "none"
       /\ \E i \in 1..Len(orphans) :
              /\ orphans[i].phase = "connecting"
              /\ Len(orphans') = Len(orphans)
              /\ orphans'[i].phase = "ready"

\* C18: the session becomes active and emits ready only in the
\* continuation of a startSession() whose connect() was resolved by the
\* handler of a Handshake frame, and each such startSession() emits ready
\* exactly once.
C18_ReadyAfterHandshake ==
    [][ /\ (isSessionActive' /\ ~isSessionActive) \/ Count(botCall'.emitted, "ready") > 0
            => /\ jobs # << >>
               /\ Head(jobs).kind = "started"
               /\ botCall'.op = "startSession"
               /\ botCall'.outcome = "resolved"
        /\ (botCall'.op = "startSession" /\ botCall'.outcome = "resolved")
            => /\ isSessionActive'
               /\ botCall'.emitted = << "ready" >>
               /\ StartedJobs(jobs') = StartedJobs(jobs) - 1
        /\ StartedJobs(jobs') > StartedJobs(jobs)
            => /\ HandshakeObserved
               /\ StartedJobs(jobs') = StartedJobs(jobs) + 1
               /\ PendingStarts' = PendingStarts - 1 ]_vars

\* startSession() has resolved on a client that is ready
C18_Witness ==
    /\ botCall.op = "startSession"
    /\ botCall.outcome = "resolved"
    /\ botCall.emitted = << "ready" >>
    /\ isSessionActive
    /\ isReady

\* C19: sendAudio() on a session that is not active throws, leaves the
\* input buffer as it is and writes nothing to the engine socket.
C19_SendOnInactiveRefused ==
    [][ (botCall'.op = "sendAudio" /\ ~isSessionActive) =>
            /\ botCall'.outcome = "threw"
            /\ botCall'.frames = << >>
            /\ written' = << >>
            /\ UNCHANGED inputBuffer ]_vars

\* sendAudio() threw on a session that is still connecting and holds a
\* client and a buffer
C19_Witness ==
    /\ botCall.op = "sendAudio"
    /\ botCall.outcome = "threw"
    /\ ~isSessionActive
    /\ personaplexClient # Null
    /\ inputBuffer # Null
    /\ StartPending

\* position among the frames forwarded of the i-th frame read, none of the
\* frames in bad being forwarded
ForwardedAt(i, bad) == i - Cardinality({ b \in bad : b < i })

\* C20: when encoding fails on some frames of a sendAudio() call, the call
\* returns, the session stays active with its client and codec, every
\* complete frame has left the buffer, and the frames that did encode are
\* written to the engine socket in order, one AUDIO frame each.
C20_EncodeFailureDropsOneFrame ==
    [][ (botCall'.op = "sendAudio" /\ botCall'.failed # {}) =>
            LET frames == botCall'.frames
                bad    == botCall'.failed
            IN  /\ botCall'.outcome = "returned"
                /\ isSessionActive /\ isSessionActive'
                /\ UNCHANGED << personaplexClient, opusCodec >>
                /\ inputBuffer' # Null
                /\ ~hasFrame(inputBuffer'[1])
                /\ SendAudioAllowed =>
                       /\ Len(written') = Len(frames) - Cardinality(bad)
                       /\ \A i \in (1..Len(frames)) \ bad :
                              written'[ForwardedAt(i, bad)] =
                                  [ socket |-> ws,
                                    data |-> << AUDIO >> \o opusEncode(frames[i]) ] ]_vars

\* a sendAudio() call whose first frame failed to encode and that wrote a
\* later frame to the socket
C20_Witness ==
    /\ botCall.op = "sendAudio"
    /\ 1 \in botCall.failed
    /\ Len(botCall.frames) > Cardinality(botCall.failed)
    /\ written # << >>

\* endSession() calls that have cleared the active flag and have not
\* emitted 'ended' yet: their continuations are queued, or wait for the
\* close() of the current client or of a replaced one
PendingEnds ==
    Cardinality({ i \in 1..Len(jobs) : jobs[i].who = "endSession" })
    + Cardinality({ i \in 1..Len(closeWaiters) : closeWaiters[i].who = "endSession" })
    + Cardinality({ p \in { q \in (1..Len(orphans)) \X (1..MaxClients) :
                                q[2] <= Len(orphans[q[1]].close) } :
                        orphans[p[1]].close[p[2]] = "endSession" })

\* the active flag goes from true to false in this step
SessionDeactivated == isSessionActive /\ ~isSessionActive'

\* C21: every time the session stops being active exactly one 'ended' is
\* emitted for it, whatever the interleaving of endSession() calls and
\* engine disconnects: the 'disconnected' listener emits it in the step
\* that clears the flag, endSession() owes it until its cleanup() is over and
\* emits it then, 'ended' is emitted at no other time, and endSession() on
\* a session that is not active returns without error and without event.
C21_EndedOncePerSession ==
    [][ LET e == Count(botCall'.emitted, "ended")
        IN  /\ e <= 1
            /\ IF SessionDeactivated
               THEN \/ /\ botCall'.op = "engine event"
                       /\ e = 1
                       /\ PendingEnds' = PendingEnds
                    \/ /\ botCall'.op = "endSession"
                       /\ botCall'.outcome = "pending"
                       /\ e = 0
                       /\ PendingEnds' = PendingEnds + 1
               ELSE \/ /\ e = 1
                       /\ botCall'.op = "endSession"
                       /\ botCall'.outcome = "resolved"
                       /\ PendingEnds' = PendingEnds - 1
                    \/ /\ e = 0
                       /\ PendingEnds' = PendingEnds
            /\ (botCall'.op = "endSession" /\ ~isSessionActive /\ e = 0) =>
                    /\ botCall'.outcome = "resolved"
                    /\ UNCHANGED << isSessionActive, SessionResources,
                                    closeWaiters, orphans, jobs, ClientState >> ]_vars

\* endSession() was called while an earlier endSession() still waited for
\* close(), and returned at once
C21_Witness ==
    /\ botCall.op = "endSession"
    /\ botCall.outcome = "resolved"
    /\ botCall.emitted = << >>
    /\ PendingEnds = 1
    /\ ~isSessionActive

\* C22: in the step that emits 'ended' the session holds neither the
\* engine client nor the codec nor the buffer any more, and the client it
\* held has no open socket and no retry pending (stated for a bot whose
\* startSession() was called once, so that the client is the only one).
C22_EndedAfterRelease ==
    [][ (clientsCreated = 1 /\ Count(botCall'.emitted, "ended") > 0) =>
            /\ personaplexClient' = Null
            /\ opusCodec' = Null
            /\ inputBuffer' = Null
            /\ \A s \in 1..Len(sockets') : sockets'[s].readyState = "CLOSED"
            /\ retryTimers' = << >>
            /\ reconnectSleepers' = 0 ]_vars

\* the samples an input buffer holds, oldest first
Held(ab) == SubSeq(ab.buffer, 1, ab.writePosition)

\* C24: complete frames reach the encoder in arrival order.  With the
\* samples of the resampled input stream that have not been read numbered
\* 1, 2, ... the buffer holds the first of them in order, and a sendAudio()
\* call on an active session that pushes m samples hands the encoder
\* frames whose concatenation is 1, 2, ... up to the last complete frame of
\* what the buffer held followed by the m new samples, and leaves the rest
\* in the buffer: nothing is reordered, duplicated or skipped.
C24_FramesInArrivalOrder ==
    /\ [](inputBuffer # Null =>
            Held(inputBuffer[1]) = [i \in 1..inputBuffer[1].writePosition |-> i])
    /\ [][ (botCall'.op = "sendAudio" /\ botCall'.outcome = "returned") =>
              LET size  == inputBuffer[1].frameSize
                  total == inputBuffer[1].writePosition + botCall'.samples
              IN  /\ Len(botCall'.frames) = total \div size
                  /\ \A j \in 1..Len(botCall'.frames) :
                        botCall'.frames[j] = [i \in 1..size |-> (j - 1) * size + i]
                  /\ inputBuffer'[1].writePosition = total % size
         ]_vars

\* a sendAudio() call completed two frames, the first of them with a sample
\* an earlier call had left in the buffer
C24_Witness ==
    /\ botCall.op = "sendAudio"
    /\ botCall.outcome = "returned"
    /\ botCall.samples = 3
    /\ Len(botCall.frames) = 2
    /\ isSessionActive

\* C27: a failed engine connection attempt makes the session emit 'error'
\* only when the retry budget is exhausted: the close of a socket after
\* which the client schedules another attempt emits no session-level
\* 'error'.
C27_ErrorOnlyWhenBudgetExhausted ==
    [][ (called' = "close event" /\ Count(botCall'.emitted, "error") > 0)
            => ~(~isReady /\ RetryScheduled) ]_vars

\* C28: decodeMessage never fails: empty input is Unknown(-1), a type
\* byte outside the protocol is Unknown(that byte), Metadata whose payload
\* does not parse is Metadata(null); and the client receiving such a frame
\* on any socket only emits 'message': its readiness, its sockets and its
\* connect() calls, the session's active flag and resources stay as they
\* are, no session event is emitted and no continuation is woken.
C28_CorruptFrameTolerated ==
    [][ /\ decodeMessage(<< >>) = [ type |-> "unknown", value |-> << -1 >> ]
        /\ decodeMessage(<< 9 >>) = [ type |-> "unknown", value |-> << 9 >> ]
        /\ decodeMessage(<< METADATA, 123 >>) = [ type |-> "metadata", value |-> << >> ]
        /\ decodeMessage(<< METADATA >>) = [ type |-> "metadata", value |-> << >> ]
        /\ \A data \in CorruptFrames : \A s \in SocketIds :
              (jobs = << >> /\ SocketMessage(s, data)) =>
                  /\ emitted' = << "message" >>
                  /\ botCall'.emitted = << >>
                  /\ jobs' = << >>
                  /\ UNCHANGED << isReady, isSessionActive, ws, sockets,
                                  connectCalls, SessionResources, closeWaiters >>
      ]_vars

\* a corrupt frame has just been received on the socket of an active session
C28_Witness ==
    /\ called = "message"
    /\ emitted = << "message" >>
    /\ isSessionActive
    /\ isReady
    /\ ws # 0
    /\ sockets[ws].readyState = "OPEN"

\* C34: whenever the session is active its engine client, input buffer
\* and codec are all present, under any interleaving of startSession(),
\* endSession(), the cleanup a failed startSession() leaves running and the
\* events of the engine leg.
C34_ActiveHasResources ==
    isSessionActive => /\ personaplexClient # Null
                       /\ inputBuffer # Null
                       /\ opusCodec # Null

\* C35: once the session has emitted ended it emits no audio event
\* and its engine client opens no socket, as long as startSession() is not
\* called again (here: in a behaviour with one startSession()).
C35_QuietAfterEnded ==
    [][ (endedSinceStart /\ clientsCreated' = 1)
          => /\ Count(botCall'.emitted, "audio") = 0
             /\ Len(sockets') = Len(sockets)
      ]_vars

\* C36: each time sendAudio() returns normally the input buffer holds
\* fewer than frameSize samples, so between calls the buffer of a session
\* never holds a complete frame.
C36_NoFrameLeftBehind ==
    /\ [][ (botCall'.op = "sendAudio" /\ botCall'.outcome = "returned") =>
              /\ isSessionActive'
              /\ inputBuffer' # Null
              /\ inputBuffer'[1].writePosition < inputBuffer'[1].frameSize
              /\ ~hasFrame(inputBuffer'[1])
         ]_vars
    /\ [](inputBuffer # Null => ~hasFrame(inputBuffer[1]))

\* a sendAudio() call completed three frames at once and left nothing
C36_Witness ==
    /\ botCall.op = "sendAudio"
    /\ botCall.outcome = "returned"
    /\ Len(botCall.frames) = 3
    /\ isSessionActive
    /\ inputBuffer # Null
    /\ inputBuffer[1].writePosition = 0

(***************************************************************************)
(* Framing at the sizes of the program: telephony chunks of 160 samples    *)
(* at 8 kHz against engine frames of 80 ms at 24 kHz.                      *)
(***************************************************************************)
FRAME_SIZE_MS == 80

TWILIO_CHUNK_SIZE == 160

MaxChunks == 24

\* Math.round(PERSONAPLEX_SAMPLE_RATE * FRAME_SIZE_MS / 1000)
EngineFrameSize ==
    (2 * PERSONAPLEX_SAMPLE_RATE * FRAME_SIZE_MS + 1000) \div 2000

\* the telephony Start: startSession({ inputSampleRate: TWILIO_SAMPLE_RATE }),
\* the buffer cut down to MaxBufferFrames frames, more than the chunks ever
\* leave in it
FramingStart ==
    /\ clientsCreated = 0
    /\ StartSessionSized(TWILIO_SAMPLE_RATE, EngineFrameSize, MaxBufferFrames)
    /\ UNCHANGED framingVars

\* the engine accepts the connection
FramingOpen ==
    /\ jobs = << >>
    /\ \E s \in SocketIds : SocketOpen(s)
    /\ SessionReacts(TRUE)
    /\ UNCHANGED framingVars

\* the engine sends its Handshake
FramingHandshake ==
    /\ jobs = << >>
    /\ ~isReady
    /\ \E s \in SocketIds : SocketMessage(s, << HANDSHAKE >>)
    /\ SessionReacts(TRUE)
    /\ UNCHANGED framingVars

\* startSession() resumes after await connect()
FramingStarted ==
    /\ Started
    /\ UNCHANGED framingVars

\* one telephony chunk reaches sendAudio()
FeedChunk ==
    /\ isSessionActive
    /\ chunksFed < MaxChunks
    /\ SessionSendAudio(TWILIO_CHUNK_SIZE)
    /\ chunksFed' = chunksFed + 1
    /\ framesEncoded' = framesEncoded + Len(botCall'.frames)
    /\ framesSent' = framesSent + Len(written')

\* C25: with chunks of 160 samples at 8 kHz fed to an active session,
\* after k chunks OpusCodec.encode() has been called for exactly floor(k/4)
\* frames, once each time 1920 samples at the engine rate have accumulated,
\* and each frame whose encoding succeeded has been sent to the engine.
C25_OneFramePerFourChunks ==
    /\ [](framesEncoded = chunksFed \div 4)
    /\ [](inputBuffer # Null =>
            inputBuffer[1].writePosition = 480 * (chunksFed % 4))
    /\ [][ chunksFed' = chunksFed + 1 =>
              /\ botCall'.samples = 480
              /\ Len(botCall'.frames) = (IF chunksFed % 4 = 3 THEN 1 ELSE 0)
              /\ \A j \in 1..Len(botCall'.frames) : Len(botCall'.frames[j]) = 1920
              /\ framesSent' - framesSent
                    = Len(botCall'.frames) - Cardinality(botCall'.failed)
         ]_vars

\* the ninth chunk is in: two frames encoded, both sent
C25_Witness ==
    /\ chunksFed = 9
    /\ framesEncoded = 2
    /\ framesSent = 2
    /\ inputBuffer # Null
    /\ inputBuffer[1].writePosition = 480

(***************************************************************************)
(* The bridge: handleMediaStream (src/src/audio/index.ts) puts one         *)
(* TwilioMediaHandler and one VoiceBot on a telephony socket.              *)
(***************************************************************************)
\* messages the telephony peer sends on the bridged socket
BridgeMessages ==
    { m \in TwilioMessages :
          /\ m.event \in { "connected", "start", "media", "stop" }
          /\ m.sid \in { Null, << "MZ1" >> } }

\* a step in which the telephony handler does nothing
TwilioQuiet ==
    /\ twilioCall' = [NoCall EXCEPT !.op = "none"]
    /\ UNCHANGED << streamSid, callSid, mediaSequence, bridgeStreamSid,
                    twilioSocket, lastStreamEvent >>

\* a step in which no method of the session is called
SessionQuiet ==
    /\ botCall' = BotCall("none", "returned", << >>)
    /\ ClientQuiet
    /\ UNCHANGED << isSessionActive, personaplexClient, inputBuffer, opusCodec,
                    inputSampleRate, clientsCreated, closeWaiters, orphans, jobs >>

\* twilioHandler.on('start'): streamSid = sid; await bot.startSession(...)
\* inside try/catch
BridgeStart(m) ==
    /\ m.event = "start" /\ m.body
    /\ HandleMessage(m)
    /\ StartSession(TWILIO_SAMPLE_RATE)

\* twilioHandler.on('stop'): streamSid = null; await bot.endSession()
BridgeStop(m) ==
    /\ m.event = "stop"
    /\ HandleMessage(m)
    /\ EndSession

\* twilioHandler.on('audio'): if (bot.active) bot.sendAudio(pcm)
BridgeMedia(m, n) ==
    /\ m.event = "media" /\ m.body
    /\ HandleMessage(m)
    /\ IF isSessionActive THEN SessionSendAudio(n)
       ELSE CallerMayRun /\ SessionQuiet

\* a telephony message no listener of the bridge acts on
BridgeOther(m) ==
    /\ ~(m.event = "start" /\ m.body)
    /\ m.event # "stop"
    /\ ~(m.event = "media" /\ m.body)
    /\ HandleMessage(m)
    /\ CallerMayRun
    /\ SessionQuiet

\* ws.on('close') of the telephony socket: await bot.endSession()
BridgeSocketClose ==
    /\ TwilioSocketClose
    /\ EndSession

\* bot.on('audio') of the bridge runs when the step emitted the session's
\* 'audio'
BridgeListens ==
    IF Count(botCall'.emitted, "audio") > 0
    THEN \E n \in BotPcmLengths : BotAudio(n)
    ELSE TwilioQuiet

\* C23: from the telephony Stop or the close of the telephony socket on
\* (until a later Start, if any) the session is not active, also when the
\* Stop or the close arrives while the engine connection is still being
\* established (stated for a call with one Start).
C23_InactiveAfterStop ==
    (clientsCreated = 1 /\ (lastStreamEvent = "stop" \/ twilioSocket = "CLOSED"))
        => ~isSessionActive

\* the telephony stream is active: the handler holds a stream id that
\* counts as one, and the telephony socket is open
StreamActive == ~StreamNotStarted(streamSid) /\ twilioSocket = "OPEN"

\* engine clients that still hold a socket, a retry timer or a reconnect
\* sleep: the one created last and those replaced
ClientsAlive ==
    (IF /\ clientsCreated > 0
        /\ \/ \E s \in SocketIds : Live(s)
           \/ retryTimers # << >>
           \/ reconnectSleepers > 0
     THEN 1 ELSE 0)
    + Cardinality({ i \in 1..Len(orphans) : orphans[i].phase # "dead" })

\* C38: a session has at most one engine client alive at a time: a
\* startSession() called while an earlier one is still connecting creates
\* no second client or closes the earlier one, and no client that
\* startSession() has replaced is left connecting or connected.
C38_OneClientAlive ==
    /\ ClientsAlive <= 1
    /\ \A i \in 1..Len(orphans) : orphans[i].phase \notin { "connecting", "ready" }

\* C26: an engine Audio message whose payload decodes makes the bridge send
\* exactly one media message on the telephony socket, carrying the current
\* streamSid, when the telephony stream is active; when no stream is
\* active, or the payload does not decode, nothing is sent.
C26_OneMediaPerEngineAudio ==
    [][ (called' = "message" /\ Count(emitted', "audio") > 0) =>
            IF Count(botCall'.emitted, "audio") > 0 /\ StreamActive
            THEN /\ Len(twilioCall'.sent) = 1
                 /\ twilioCall'.sent[1].event = "media"
                 /\ twilioCall'.sent[1].streamSid = streamSid
                 /\ mediaSequence' = mediaSequence + 1
            ELSE twilioCall'.sent = << >>
      ]_vars

\* the engine's audio has just gone out on the telephony socket
C26_Witness ==
    /\ called = "message"
    /\ Count(emitted, "audio") > 0
    /\ twilioCall.op = "bot audio"
    /\ Len(twilioCall.sent) = 1
    /\ twilioCall.sent[1].streamSid = << "MZ1" >>
    /\ isSessionActive

(***************************************************************************)
(* mu-law codec of the telephony leg (src/src/audio/buffer.ts).  A PCM     *)
(* sample, a float in [-1, 1], is written as its numerator over 32768.     *)
(***************************************************************************)
MULAW_BIAS == 132

MULAW_MAX == 32635

\* the lookup table, entry b + 1 for the byte b
MULAW_DECODE_TABLE ==
    <<
       -32124, -31100, -30076, -29052, -28028, -27004, -25980, -24956,
       -23932, -22908, -21884, -20860, -19836, -18812, -17788, -16764,
       -15996, -15484, -14972, -14460, -13948, -13436, -12924, -12412,
       -11900, -11388, -10876, -10364,  -9852,  -9340,  -8828,  -8316,
        -7932,  -7676,  -7420,  -7164,  -6908,  -6652,  -6396,  -6140,
        -5884,  -5628,  -5372,  -5116,  -4860,  -4604,  -4348,  -4092,
        -3900,  -3772,  -3644,  -3516,  -3388,  -3260,  -3132,  -3004,
        -2876,  -2748,  -2620,  -2492,  -2364,  -2236,  -2108,  -1980,
        -1884,  -1820,  -1756,  -1692,  -1628,  -1564,  -1500,  -1436,
        -1372,  -1308,  -1244,  -1180,  -1116,  -1052,   -988,   -924,
         -876,   -844,   -812,   -780,   -748,   -716,   -684,   -652,
         -620,   -588,   -556,   -524,   -492,   -460,   -428,   -396,
         -372,   -356,   -340,   -324,   -308,   -292,   -276,   -260,
         -244,   -228,   -212,   -196,   -180,   -164,   -148,   -132,
         -120,   -112,   -104,    -96,    -88,    -80,    -72,    -64,
          -56,    -48,    -40,    -32,    -24,    -16,     -8,      0,
        32124,  31100,  30076,  29052,  28028,  27004,  25980,  24956,
        23932,  22908,  21884,  20860,  19836,  18812,  17788,  16764,
        15996,  15484,  14972,  14460,  13948,  13436,  12924,  12412,
        11900,  11388,  10876,  10364,   9852,   9340,   8828,   8316,
         7932,   7676,   7420,   7164,   6908,   6652,   6396,   6140,
         5884,   5628,   5372,   5116,   4860,   4604,   4348,   4092,
         3900,   3772,   3644,   3516,   3388,   3260,   3132,   3004,
         2876,   2748,   2620,   2492,   2364,   2236,   2108,   1980,
         1884,   1820,   1756,   1692,   1628,   1564,   1500,   1436,
         1372,   1308,   1244,   1180,   1116,   1052,    988,    924,
          876,    844,    812,    780,    748,    716,    684,    652,
          620,    588,    556,    524,    492,    460,    428,    396,
          372,    356,    340,    324,    308,    292,    276,    260,
          244,    228,    212,    196,    180,    164,    148,    132,
          120,    112,    104,     96,     88,     80,     72,     64,
           56,     48,     40,     32,     24,     16,      8,      0 >>

\* 16-bit PCM values and mu-law bytes
Int16Values == -32768..32767

ByteValues == 0..255

\* the loop that finds the segment: exponent from 7 down while bit
\* exponent + 7 of pcm is clear
mulawExponent(pcm) ==
    LET segments == { e \in 1..7 : (pcm \div 2^(e + 7)) % 2 = 1 }
    IN  IF segments = {} THEN 0
        ELSE CHOOSE e \in segments : \A f \in segments : f <= e

\* encodeMulawSample without MULAW_BIAS added
encodeMulawSample_NoBias(sample) ==
    LET clamped   == Max(-32768, Min(32768, sample))
        rounded   == (2 * clamped * 32767 + 32768) \div 65536
        sign      == IF rounded < 0 THEN 128 ELSE 0
        magnitude == IF rounded < 0 THEN -rounded ELSE rounded
        pcm       == Min(magnitude, MULAW_MAX)
        exponent  == mulawExponent(pcm)
        mantissa  == (pcm \div 2^(exponent + 3)) % 16
    IN  255 - (sign + exponent * 16 + mantissa)

\* encodeMulawSample(sample): clamp, Math.round(clamped * 32767), sign,
\* bias and clip, segment, mantissa, complement
encodeMulawSample(sample) ==
    LET clamped   == Max(-32768, Min(32768, sample))
        rounded   == (2 * clamped * 32767 + 32768) \div 65536
        sign      == IF rounded < 0 THEN 128 ELSE 0
        magnitude == IF rounded < 0 THEN -rounded ELSE rounded
        pcm       == Min(magnitude + MULAW_BIAS, MULAW_MAX)
        exponent  == mulawExponent(pcm)
        mantissa  == (pcm \div 2^(exponent + 3)) % 16
    IN  255 - (sign + exponent * 16 + mantissa)

\* the lookup with the sign bit of the byte ignored
mulawDecodeSample_Unsigned(byte) == MULAW_DECODE_TABLE[(byte % 128) + 129]

\* mulawToPcm for one byte: MULAW_DECODE_TABLE[byte] / 32768
mulawDecodeSample(byte) == MULAW_DECODE_TABLE[byte + 1]

CodecCall(op, input, output) == [ op |-> op, input |-> input, output |-> output ]

\* a 16-bit sample or a mu-law byte is at hand
CodecInit ==
    \/ \E x \in Int16Values : codecCall = CodecCall("sample", << x >>, << >>)
    \/ \E b \in ByteValues : codecCall = CodecCall("byte", << b >>, << >>)

\* pcmToMulaw on the sample
EncodeSample ==
    /\ codecCall.op = "sample"
    /\ codecCall' = CodecCall("encodeMulawSample", codecCall.input,
                              << encodeMulawSample(codecCall.input[1]) >>)

\* mulawToPcm on the byte
DecodeByte ==
    /\ codecCall.op = "byte"
    /\ codecCall' = CodecCall("mulawToPcm", codecCall.input,
                              << mulawDecodeSample(codecCall.input[1]) >>)

\* mulawToPcm on the byte pcmToMulaw made of the sample
DecodeEncoded ==
    /\ codecCall.op = "encodeMulawSample"
    /\ codecCall' = CodecCall("roundTrip", codecCall.input,
                              << mulawDecodeSample(codecCall.output[1]) >>)

\* pcmToMulaw on the sample mulawToPcm made of the byte
EncodeDecoded ==
    /\ codecCall.op = "mulawToPcm"
    /\ codecCall' = CodecCall("codeRoundTrip", codecCall.input,
                              << encodeMulawSample(codecCall.output[1]) >>)

\* the quantization step of the segment the byte lies in
SegmentStep(byte) == 8 * 2^(((255 - byte) \div 16) % 8)

\* C29: mu-law decoding maps the byte 0xFF to 0 and the byte 0x00 to
\* -32124, and for every 16-bit PCM value x the decoding of the encoding of
\* x has the sign of x or is 0 and differs from x by at most one
\* quantization step of the segment x was encoded in.
C29_MulawRoundTrip ==
    /\ (codecCall.op = "mulawToPcm" /\ codecCall.input = << 255 >>)
            => codecCall.output = << 0 >>
    /\ (codecCall.op = "mulawToPcm" /\ codecCall.input = << 0 >>)
            => codecCall.output = << -32124 >>
    /\ codecCall.op = "roundTrip" =>
            LET x == codecCall.input[1]
                y == codecCall.output[1]
                d == IF x > y THEN x - y ELSE y - x
            IN  /\ x > 0 => y >= 0
                /\ x < 0 => y <= 0
                /\ x = 0 => y = 0
                /\ d <= SegmentStep(encodeMulawSample(x))

\* the largest sample, clipped to the top of the last segment
C29_Witness ==
    /\ codecCall.op = "roundTrip"
    /\ codecCall.input = << 32767 >>
    /\ codecCall.output = << 32124 >>

\* C37 as stated: for every mu-law code b in 0..255, encoding the decoded
\* value of b gives b again.
C37_EncodeDecodeIdentity ==
    codecCall.op = "codeRoundTrip" => codecCall.output = codecCall.input

\* C37 amended: encoding the decoded value of b gives b again for every
\* code b but 0x7F; 0x7F and 0xFF both decode to 0, which encodes to 0xFF,
\* so decoding is one-to-one on the other 255 codes only.
C37_EncodeDecodeIdentityButZero ==
    /\ codecCall.op = "codeRoundTrip" =>
            codecCall.output = IF codecCall.input = << 127 >> THEN << 255 >>
                               ELSE codecCall.input
    /\ (codecCall.op = "mulawToPcm" /\ codecCall.output = << 0 >>)
            => codecCall.input \in { << 127 >>, << 255 >> }

\* the code of the largest negative sample comes back as itself
C37_Witness ==
    /\ codecCall.op = "codeRoundTrip"
    /\ codecCall.input = << 0 >>
    /\ codecCall.output = << 0 >>

(***************************************************************************)
(* Specifications.                                                         *)
(***************************************************************************)
\* the client as constructed, next to components nothing drives
ClientIdle == Init /\ autoReconnect = TRUE /\ urlValid = TRUE

\* a frame buffer nothing drives
BufferIdle ==
    /\ audioBuffer = AudioBuffer(1, 1)
    /\ nextSample = 1
    /\ bufferCall = [ op |-> "constructor", samples |-> << >>,
                      returned |-> << >>, threw |-> FALSE ]

\* no chunk fed yet
FramingIdle ==
    /\ chunksFed = 0
    /\ framesEncoded = 0
    /\ framesSent = 0

NoCodecCall == [ op |-> "none", input |-> << >>, output |-> << >> ]

\* no codec function called yet
CodecIdle == codecCall = NoCodecCall

HistoryIdle == endedSinceStart = FALSE

RestIdle == FramingIdle /\ CodecIdle /\ HistoryIdle

\* the engine-leg client on its own
SpecInit == Init /\ BufferIdle /\ TwilioInit /\ SessionInit /\ RestIdle

Next ==
    \/ Connect /\ UNCHANGED << bufferVars, twilioVars, sessionVars, restVars >>
    \/ Close /\ UNCHANGED << bufferVars, twilioVars, sessionVars, restVars >>
    \/ \E p \in OpusPackets : SendAudio(p) /\ UNCHANGED << bufferVars, twilioVars, sessionVars, restVars >>
    \/ \E i \in 1..MaxSockets : RetryTimerFires(i) /\ UNCHANGED << bufferVars, twilioVars, sessionVars, restVars >>
    \/ ReconnectSleepEnds /\ UNCHANGED << bufferVars, twilioVars, sessionVars, restVars >>
    \/ \E s \in 1..MaxSockets : SocketOpen(s) /\ UNCHANGED << bufferVars, twilioVars, sessionVars, restVars >>
    \/ \E s \in 1..MaxSockets, d \in EngineFrames :
           SocketMessage(s, d) /\ UNCHANGED << bufferVars, twilioVars, sessionVars, restVars >>
    \/ \E s \in 1..MaxSockets : SocketError(s) /\ UNCHANGED << bufferVars, twilioVars, sessionVars, restVars >>
    \/ \E s \in 1..MaxSockets : SocketConnectFails(s) /\ UNCHANGED << bufferVars, twilioVars, sessionVars, restVars >>
    \/ \E s \in 1..MaxSockets : SocketClose(s) /\ UNCHANGED << bufferVars, twilioVars, sessionVars, restVars >>

Spec == SpecInit /\ [][Next]_vars

\* the frame buffer on its own, driven by one producer and one consumer
BufferSpecInit == ClientIdle /\ BufferInit /\ TwilioInit /\ SessionInit /\ RestIdle

BufferNext ==
    \/ \E n \in 0..(Capacity + 1) : BufferPush(n) /\ UNCHANGED << clientVars, twilioVars, sessionVars, restVars >>
    \/ BufferReadFrame /\ UNCHANGED << clientVars, twilioVars, sessionVars, restVars >>
    \/ BufferReadAllFrames /\ UNCHANGED << clientVars, twilioVars, sessionVars, restVars >>
    \/ \E count \in -1..(Capacity + 1) : BufferPeek(count) /\ UNCHANGED << clientVars, twilioVars, sessionVars, restVars >>
    \/ BufferClear /\ UNCHANGED << clientVars, twilioVars, sessionVars, restVars >>

BufferSpec == BufferSpecInit /\ [][BufferNext]_vars

\* the telephony leg: the peer's messages, the session's audio and callers
\* of the handler's message builders
TwilioSpecInit == ClientIdle /\ BufferIdle /\ TwilioInit /\ SessionInit /\ RestIdle

TwilioNext ==
    \/ \E m \in TwilioMessages :
           HandleMessage(m) /\ UNCHANGED << clientVars, bufferVars, sessionVars, restVars >>
    \/ \E n \in BotPcmLengths :
           CreateAudioMessage(n) /\ UNCHANGED << clientVars, bufferVars, sessionVars, restVars >>
    \/ CreateMarkMessage /\ UNCHANGED << clientVars, bufferVars, sessionVars, restVars >>
    \/ CreateClearMessage /\ UNCHANGED << clientVars, bufferVars, sessionVars, restVars >>
    \/ Reset /\ UNCHANGED << clientVars, bufferVars, sessionVars, restVars >>
    \/ \E n \in BotPcmLengths :
           BotAudio(n) /\ UNCHANGED << clientVars, bufferVars, sessionVars, restVars >>
    \/ TwilioSocketClose /\ UNCHANGED << clientVars, bufferVars, sessionVars, restVars >>

TwilioSpec == TwilioSpecInit /\ [][TwilioNext]_vars

\* the session orchestrator: the application calls startSession(),
\* sendAudio() and endSession() at any time, the engine leg does what it
\* likes
SessionSpecInit ==
    /\ Init
    /\ autoReconnect = TRUE
    /\ BufferIdle
    /\ TwilioInit
    /\ SessionInit
    /\ RestIdle

SessionNext ==
    \/ (\E rate \in SessionRates :
            StartSession(rate) /\ TrackEnded /\ UNCHANGED << bufferVars, twilioVars, otherComponentVars >>)
    \/ (\E n \in PcmLengths :
            SessionSendAudio(n) /\ TrackEnded /\ UNCHANGED << bufferVars, twilioVars, otherComponentVars >>)
    \/ (EndSession /\ TrackEnded /\ UNCHANGED << bufferVars, twilioVars, otherComponentVars >>)
    \/ (Started /\ TrackEnded /\ UNCHANGED << bufferVars, twilioVars, otherComponentVars >>)
    \/ (Catch /\ TrackEnded /\ UNCHANGED << bufferVars, twilioVars, otherComponentVars >>)
    \/ (CleanupEnds /\ TrackEnded /\ UNCHANGED << bufferVars, twilioVars, otherComponentVars >>)
    \/ (Ended /\ TrackEnded /\ UNCHANGED << bufferVars, twilioVars, otherComponentVars >>)
    \/ (\E s \in SocketIds : jobs = << >> /\ SocketOpen(s) /\ SessionReacts(TRUE)
                /\ TrackEnded /\ UNCHANGED << bufferVars, twilioVars, otherComponentVars >>)
    \/ (\E s \in SocketIds : \E data \in SessionFrames : \E decodeOk \in BOOLEAN :
            jobs = << >> /\ SocketMessage(s, data) /\ SessionReacts(decodeOk)
                /\ TrackEnded /\ UNCHANGED << bufferVars, twilioVars, otherComponentVars >>)
    \/ (\E s \in SocketIds : jobs = << >> /\ SocketError(s) /\ SessionReacts(TRUE)
                /\ TrackEnded /\ UNCHANGED << bufferVars, twilioVars, otherComponentVars >>)
    \/ (\E s \in SocketIds : jobs = << >> /\ SocketConnectFails(s) /\ SessionReacts(TRUE)
                /\ TrackEnded /\ UNCHANGED << bufferVars, twilioVars, otherComponentVars >>)
    \/ (\E s \in SocketIds : jobs = << >> /\ SocketClose(s) /\ SessionReacts(TRUE)
                /\ TrackEnded /\ UNCHANGED << bufferVars, twilioVars, otherComponentVars >>)
    \/ (\E i \in 1..Len(retryTimers) : jobs = << >> /\ RetryTimerFires(i) /\ SessionReacts(TRUE)
                /\ TrackEnded /\ UNCHANGED << bufferVars, twilioVars, otherComponentVars >>)
    \/ (jobs = << >> /\ ReconnectSleepEnds /\ SessionReacts(TRUE)
                /\ TrackEnded /\ UNCHANGED << bufferVars, twilioVars, otherComponentVars >>)
    \/ (\E i \in 1..Len(orphans) : OrphanHandshake(i) /\ TrackEnded /\ UNCHANGED << bufferVars, twilioVars, otherComponentVars >>)
    \/ (\E i \in 1..Len(orphans) : OrphanFails(i) /\ TrackEnded /\ UNCHANGED << bufferVars, twilioVars, otherComponentVars >>)
    \/ (\E i \in 1..Len(orphans) : \E name \in { "audio", "text" } : \E decodeOk \in BOOLEAN :
            OrphanMessage(i, name, decodeOk) /\ TrackEnded /\ UNCHANGED << bufferVars, twilioVars, otherComponentVars >>)
    \/ (\E i \in 1..Len(orphans) : OrphanDisconnects(i) /\ TrackEnded /\ UNCHANGED << bufferVars, twilioVars, otherComponentVars >>)
    \/ (\E i \in 1..Len(orphans) : OrphanClosed(i) /\ TrackEnded /\ UNCHANGED << bufferVars, twilioVars, otherComponentVars >>)

SessionSpec == SessionSpecInit /\ [][SessionNext]_vars

\* the bridge: the telephony peer drives the session, the engine leg does
\* what it likes
BridgeSpecInit ==
    /\ Init
    /\ autoReconnect = TRUE
    /\ BufferIdle
    /\ TwilioInit
    /\ SessionInit
    /\ RestIdle

BridgeNext ==
    \/ (\E m \in BridgeMessages : BridgeStart(m) /\ TrackEnded /\ UNCHANGED << bufferVars, otherComponentVars >>)
    \/ (\E m \in BridgeMessages : BridgeStop(m) /\ TrackEnded /\ UNCHANGED << bufferVars, otherComponentVars >>)
    \/ (\E m \in BridgeMessages : \E n \in PcmLengths :
            BridgeMedia(m, n) /\ TrackEnded /\ UNCHANGED << bufferVars, otherComponentVars >>)
    \/ (\E m \in BridgeMessages : BridgeOther(m) /\ TrackEnded /\ UNCHANGED << bufferVars, otherComponentVars >>)
    \/ (BridgeSocketClose /\ TrackEnded /\ UNCHANGED << bufferVars, otherComponentVars >>)
    \/ (Started /\ TwilioQuiet /\ TrackEnded /\ UNCHANGED << bufferVars, otherComponentVars >>)
    \/ (Catch /\ TwilioQuiet /\ TrackEnded /\ UNCHANGED << bufferVars, otherComponentVars >>)
    \/ (CleanupEnds /\ TwilioQuiet /\ TrackEnded /\ UNCHANGED << bufferVars, otherComponentVars >>)
    \/ (Ended /\ TwilioQuiet /\ TrackEnded /\ UNCHANGED << bufferVars, otherComponentVars >>)
    \/ (\E s \in SocketIds : jobs = << >> /\ SocketOpen(s) /\ SessionReacts(TRUE)
                /\ BridgeListens /\ TrackEnded /\ UNCHANGED << bufferVars, otherComponentVars >>)
    \/ (\E s \in SocketIds : \E data \in SessionFrames : \E decodeOk \in BOOLEAN :
            jobs = << >> /\ SocketMessage(s, data) /\ SessionReacts(decodeOk)
                /\ BridgeListens /\ TrackEnded /\ UNCHANGED << bufferVars, otherComponentVars >>)
    \/ (\E s \in SocketIds : jobs = << >> /\ SocketError(s) /\ SessionReacts(TRUE)
                /\ BridgeListens /\ TrackEnded /\ UNCHANGED << bufferVars, otherComponentVars >>)
    \/ (\E s \in SocketIds : jobs = << >> /\ SocketConnectFails(s) /\ SessionReacts(TRUE)
                /\ BridgeListens /\ TrackEnded /\ UNCHANGED << bufferVars, otherComponentVars >>)
    \/ (\E s \in SocketIds : jobs = << >> /\ SocketClose(s) /\ SessionReacts(TRUE)
                /\ BridgeListens /\ TrackEnded /\ UNCHANGED << bufferVars, otherComponentVars >>)
    \/ (\E i \in 1..Len(retryTimers) : jobs = << >> /\ RetryTimerFires(i) /\ SessionReacts(TRUE)
                /\ BridgeListens /\ TrackEnded /\ UNCHANGED << bufferVars, otherComponentVars >>)
    \/ (jobs = << >> /\ ReconnectSleepEnds /\ SessionReacts(TRUE)
                /\ BridgeListens /\ TrackEnded /\ UNCHANGED << bufferVars, otherComponentVars >>)
    \/ (\E i \in 1..Len(orphans) : OrphanHandshake(i) /\ BridgeListens /\ TrackEnded /\ UNCHANGED << bufferVars, otherComponentVars >>)
    \/ (\E i \in 1..Len(orphans) : OrphanFails(i) /\ BridgeListens /\ TrackEnded /\ UNCHANGED << bufferVars, otherComponentVars >>)
    \/ (\E i \in 1..Len(orphans) : \E name \in { "audio", "text" } : \E decodeOk \in BOOLEAN :
            OrphanMessage(i, name, decodeOk) /\ BridgeListens /\ TrackEnded /\ UNCHANGED << bufferVars, otherComponentVars >>)
    \/ (\E i \in 1..Len(orphans) : OrphanDisconnects(i) /\ BridgeListens /\ TrackEnded /\ UNCHANGED << bufferVars, otherComponentVars >>)
    \/ (\E i \in 1..Len(orphans) : OrphanClosed(i) /\ BridgeListens /\ TrackEnded /\ UNCHANGED << bufferVars, otherComponentVars >>)

BridgeSpec == BridgeSpecInit /\ [][BridgeNext]_vars

\* one call with a reachable engine: the telephony Start, then chunk after
\* chunk
FramingSpecInit ==
    /\ Init
    /\ autoReconnect = TRUE
    /\ urlValid = TRUE
    /\ BufferIdle
    /\ TwilioInit
    /\ SessionInit
    /\ RestIdle

FramingNext ==
    \/ (FramingStart /\ TrackEnded /\ UNCHANGED << bufferVars, twilioVars, codecVars >>)
    \/ (FramingOpen /\ TrackEnded /\ UNCHANGED << bufferVars, twilioVars, codecVars >>)
    \/ (FramingHandshake /\ TrackEnded /\ UNCHANGED << bufferVars, twilioVars, codecVars >>)
    \/ (FramingStarted /\ TrackEnded /\ UNCHANGED << bufferVars, twilioVars, codecVars >>)
    \/ (FeedChunk /\ TrackEnded /\ UNCHANGED << bufferVars, twilioVars, codecVars >>)

FramingSpec == FramingSpecInit /\ [][FramingNext]_vars

\* the mu-law functions applied to every 16-bit sample and every byte
CodecSpecInit ==
    /\ ClientIdle
    /\ BufferIdle
    /\ TwilioInit
    /\ SessionInit
    /\ FramingIdle
    /\ HistoryIdle
    /\ CodecInit

CodecNext ==
    \/ (EncodeSample /\ UNCHANGED << clientVars, bufferVars, twilioVars, sessionVars, framingVars, historyVars >>)
    \/ (DecodeByte /\ UNCHANGED << clientVars, bufferVars, twilioVars, sessionVars, framingVars, historyVars >>)
    \/ (DecodeEncoded /\ UNCHANGED << clientVars, bufferVars, twilioVars, sessionVars, framingVars, historyVars >>)
    \/ (EncodeDecoded /\ UNCHANGED << clientVars, bufferVars, twilioVars, sessionVars, framingVars, historyVars >>)

CodecSpec == CodecSpecInit /\ [][CodecNext]_vars
====
